---- MODULE Spec2Model ----
(***************************************************************************)
(* Model of google-api-typings-generator (src/src/app.ts): the indented    *)
(* TypeScript writer, the schema-to-type translator getType, the resource  *)
(* walker writeResources, the test stub generator (writeSchemaRef,         *)
(* writeObject, writeArray, writeProperties, writePropertyValue) and the   *)
(* namespace discovery getAllNamespaces.                                   *)
(*                                                                         *)
(* Text is modelled as TLA+ strings, a JavaScript object as the sequence   *)
(* of its [key, val] entries in the order in which the object enumerates   *)
(* them (ownProperties), an optional field as a sequence of length 0       *)
(* (undefined) or 1, and a thrown exception as a result tagged "throw"     *)
(* (pure functions) or the writer's `thrown` flag (walks).                 *)
(***************************************************************************)
EXTENDS Integers, Sequences, FiniteSets, TLC

VARIABLES
    input,           \* the arguments of the operation under examination
    pc,              \* where that operation stands
    ret,             \* the value it returned (or the exception it threw)
    writer,          \* the TypescriptTextWriter / IndentedTextWriter state
    seenSchemaRefs,  \* App.seenSchemaRefs
    stack,           \* the call stack of the stub generator; the calls in progress
    disk,            \* the files of the types directory
    requests         \* the HTTP requests sent so far, in order

vars == <<input, pc, ret, writer, seenSchemaRefs, stack, disk, requests>>

(***************************************************************************)
(* Bounds of the model.                                                    *)
(***************************************************************************)
MaxArrayDepth == 2   \* array wrappers put around a base schema node
MaxStack == 24       \* frames of the stub generator's call stack explored

NoFiles == <<>>      \* a types directory with nothing in it

(***************************************************************************)
(* Strings.                                                                *)
(***************************************************************************)
NL == "\n"
tabString == "    "
Upper == "ABCDEFGHIJKLMNOPQRSTUVWXYZ"
Lower == "abcdefghijklmnopqrstuvwxyz"
Digits == "0123456789"
\* The characters of the strings in UTF-16 code unit order: the tab, the
\* line ends and the form feed, U+0020 to U+007E, and U+00A0 to U+00FF.  The
\* grave accent (U+0060), which a string of this module cannot hold, is left
\* out, and so are the other control characters; no key has one.
CodeUnits ==
    "\t\n\f\r !\"#$%&'()*+,-./0123456789:;<=>?@ABCDEFGHIJKLMNOPQRSTUVWXYZ[\\]^_abcdefghijklmnopqrstuvwxyz{|}~"
    \o " ¡¢£¤¥¦§¨©ª«¬­®¯°±²³´µ¶·¸¹º»¼½¾¿ÀÁÂÃÄÅÆÇÈÉÊËÌÍÎÏÐÑÒÓÔÕÖ×ØÙÚÛÜÝÞßàáâãäåæçèéêëìíîïðñòóôõö÷øùúûüýþÿ"

CharAt(s, i) == SubSeq(s, i, i)
HasChar(s, c) == \E i \in 1..Len(s) : CharAt(s, i) = c
IndexIn(s, c) == IF HasChar(s, c)
                 THEN CHOOSE i \in 1..Len(s) :
                          CharAt(s, i) = c /\ \A j \in 1..(i - 1) : CharAt(s, j) # c
                 ELSE 0
LastIndexIn(s, c) == IF HasChar(s, c)
                     THEN CHOOSE i \in 1..Len(s) :
                          CharAt(s, i) = c /\ \A j \in (i + 1)..Len(s) : CharAt(s, j) # c
                     ELSE 0
startsWith(s, p) == Len(p) <= Len(s) /\ SubSeq(s, 1, Len(p)) = p
includes(s, p) == \E i \in 1..(Len(s) + 1 - Len(p)) : SubSeq(s, i, i + Len(p) - 1) = p
IsWordChar(c) == HasChar(Upper, c) \/ HasChar(Lower, c) \/ HasChar(Digits, c) \/ c = "_"
upperFirst(s) == IF Len(s) > 0 /\ HasChar(Lower, CharAt(s, 1))
                 THEN CharAt(Upper, IndexIn(Lower, CharAt(s, 1))) \o SubSeq(s, 2, Len(s))
                 ELSE s

\* The place of a character in the order of the code units.  A character
\* that CodeUnits leaves out has none, and no order is given to it.
codeUnitOf(c) == CHOOSE i \in 1..Len(CodeUnits) : CharAt(CodeUnits, i) = c

RECURSIVE StrLess(_, _)
StrLess(a, b) ==
    IF Len(b) = 0 THEN FALSE
    ELSE IF Len(a) = 0 THEN TRUE
    ELSE IF CharAt(a, 1) = CharAt(b, 1)
         THEN StrLess(SubSeq(a, 2, Len(a)), SubSeq(b, 2, Len(b)))
         ELSE codeUnitOf(CharAt(a, 1)) < codeUnitOf(CharAt(b, 1))

RECURSIVE Repeat(_, _)
Repeat(s, n) == IF n = 0 THEN "" ELSE s \o Repeat(s, n - 1)

RECURSIVE Join(_, _)
Join(parts, sep) ==
    IF Len(parts) = 0 THEN ""
    ELSE IF Len(parts) = 1 THEN parts[1]
    ELSE parts[1] \o sep \o Join(Tail(parts), sep)

\* String.prototype.split on a one-character separator.
RECURSIVE split(_, _)
split(s, sep) ==
    IF ~HasChar(s, sep) THEN <<s>>
    ELSE <<SubSeq(s, 1, IndexIn(s, sep) - 1)>>
         \o split(SubSeq(s, IndexIn(s, sep) + 1, Len(s)), sep)

(***************************************************************************)
(* JavaScript objects as ordered maps.                                     *)
(***************************************************************************)
Entry(k, v) == [key |-> k, val |-> v]
Keys(m) == [i \in 1..Len(m) |-> m[i].key]
HasKey(m, k) == \E i \in 1..Len(m) : m[i].key = k
Lookup(m, k) == IF HasKey(m, k)
                THEN <<m[CHOOSE i \in 1..Len(m) : m[i].key = k].val>>
                ELSE <<>>

\* An array index of ECMAScript: the decimal numeral, with no leading zero,
\* of an integer below 2^32 - 1.
isArrayIndex(key) ==
    /\ Len(key) \in 1..10
    /\ \A i \in 1..Len(key) : HasChar(Digits, CharAt(key, i))
    /\ (Len(key) = 1 \/ CharAt(key, 1) # "0")
    /\ (Len(key) = 10 => StrLess(key, "4294967295"))
\* The numeric order of two array indices.
indexLess(a, b) == Len(a) < Len(b) \/ (Len(a) = Len(b) /\ StrLess(a, b))

RECURSIVE insertIndex(_, _)
insertIndex(e, m) ==
    IF Len(m) = 0 THEN <<e>>
    ELSE IF indexLess(e.key, m[1].key) THEN <<e>> \o m
    ELSE <<m[1]>> \o insertIndex(e, Tail(m))
RECURSIVE sortIndices(_)
sortIndices(m) == IF Len(m) = 0 THEN <<>> ELSE insertIndex(m[1], sortIndices(Tail(m)))

\* The order in which an object enumerates the entries it was given in the
\* order m (Object.keys, Object.entries, _.forEach, the spread): the array
\* indices in ascending numeric order, then the other keys as they came.
ownProperties(m) ==
    sortIndices(SelectSeq(m, LAMBDA e : isArrayIndex(e.key)))
    \o SelectSeq(m, LAMBDA e : ~isArrayIndex(e.key))

\* {...a, ...b}: the keys of a in their order (b's value where b has the key),
\* then the keys only b has, as the new object enumerates them.
Spread(a, b) ==
    ownProperties(
        [i \in 1..Len(a) |-> IF HasKey(b, a[i].key)
                             THEN Entry(a[i].key, Lookup(b, a[i].key)[1])
                             ELSE a[i]]
        \o SelectSeq(b, LAMBDA e : ~HasKey(a, e.key)))

\* The order String.prototype.localeCompare gives the ASCII characters of a
\* key: punctuation, then the digits, then the letters, a letter of either
\* case at the place of the letter.
Collation == " _-,;:!?.'\"()[]{}@*/\\&#%^+<=>|~$0123456789"
primaryWeight(c) ==
    IF HasChar(Lower, c) THEN Len(Collation) + IndexIn(Lower, c)
    ELSE IF HasChar(Upper, c) THEN Len(Collation) + IndexIn(Upper, c)
    ELSE IndexIn(Collation, c)

\* The keys differ by more than the case of their letters, and a comes first.
RECURSIVE primaryLess(_, _)
primaryLess(a, b) ==
    IF Len(b) = 0 THEN FALSE
    ELSE IF Len(a) = 0 THEN TRUE
    ELSE IF primaryWeight(CharAt(a, 1)) = primaryWeight(CharAt(b, 1))
         THEN primaryLess(SubSeq(a, 2, Len(a)), SubSeq(b, 2, Len(b)))
         ELSE primaryWeight(CharAt(a, 1)) < primaryWeight(CharAt(b, 1))

\* Of two keys that differ by the case of letters alone, a has the lower-case
\* letter at the first place where they differ.
RECURSIVE lowerCaseFirst(_, _)
lowerCaseFirst(a, b) ==
    IF Len(a) = 0 \/ Len(b) = 0 THEN FALSE
    ELSE IF CharAt(a, 1) = CharAt(b, 1)
         THEN lowerCaseFirst(SubSeq(a, 2, Len(a)), SubSeq(b, 2, Len(b)))
         ELSE HasChar(Lower, CharAt(a, 1))

\* a.localeCompare(b), the comparison of deep-sort-object: -1, 0 or 1.
localeCompare(a, b) ==
    IF a = b THEN 0
    ELSE IF primaryLess(a, b) THEN -1
    ELSE IF primaryLess(b, a) THEN 1
    ELSE IF lowerCaseFirst(a, b) THEN -1
    ELSE 1

RECURSIVE InsertSorted(_, _)
InsertSorted(e, m) ==
    IF Len(m) = 0 THEN <<e>>
    ELSE IF localeCompare(e.key, m[1].key) < 0 THEN <<e>> \o m
    ELSE <<m[1]>> \o InsertSorted(e, Tail(m))

RECURSIVE sortKeys(_)
sortKeys(m) == IF Len(m) = 0 THEN <<>> ELSE InsertSorted(m[1], sortKeys(Tail(m)))

\* deep-sort-object on a record of schemas: a new object given the keys in
\* the order of localeCompare, which enumerates those that are array
\* indices first; and the same within every schema of the record.
RECURSIVE sortObject(_)
RECURSIVE sortSchema(_)
sortAll(m) == [i \in 1..Len(m) |-> Entry(m[i].key, sortSchema(m[i].val))]
sortOptional(optional) == IF optional = <<>> THEN <<>> ELSE <<sortSchema(optional[1])>>
sortSchema(schema) ==
    [schema EXCEPT !.properties = IF @ = <<>> THEN <<>> ELSE <<sortObject(@[1])>>,
                   !.items = sortOptional(@),
                   !.additionalProperties = sortOptional(@)]
sortObject(m) == ownProperties(sortKeys(sortAll(m)))

(***************************************************************************)
(* gapi.client.discovery.JsonSchema.                                       *)
(***************************************************************************)
JsonSchema(t, r, it, pr, ad) ==
    [type |-> t, ref |-> r, items |-> it, properties |-> pr,
     additionalProperties |-> ad, repeated |-> FALSE, required |-> FALSE,
     description |-> "", id |-> <<>>]

Scalar(k) == JsonSchema(k, "", <<>>, <<>>, <<>>)
Ref(name) == JsonSchema("", name, <<>>, <<>>, <<>>)
ArrayOf(n) == JsonSchema("array", "", <<n>>, <<>>, <<>>)
ObjectOf(plist) == JsonSchema("object", "", <<>>, <<plist>>, <<>>)
MapOf(n) == JsonSchema("object", "", <<>>, <<>>, <<n>>)
ObjectWithMap(plist, n) == JsonSchema("object", "", <<>>, <<plist>>, <<n>>)
BareObject == Scalar("object")
Malformed == JsonSchema("", "", <<>>, <<>>, <<>>)
ArrayNoItems == JsonSchema("array", "", <<>>, <<>>, <<>>)
Repeated(n) == [n EXCEPT !.repeated = TRUE]
Required(n) == [n EXCEPT !.required = TRUE]
Described(n, d) == [n EXCEPT !.description = d]
Identified(n, id) == [n EXCEPT !.id = <<id>>]

RECURSIVE ArrayNest(_, _)
ArrayNest(n, d) == IF d = 0 THEN n ELSE ArrayOf(ArrayNest(n, d - 1))

(***************************************************************************)
(* Results of functions that return a string, return a writer callback or  *)
(* throw.  A callback is the data of its closure.                          *)
(***************************************************************************)
Result(k, s, f, node, child, parameters, ref) ==
    [k |-> k, s |-> s, f |-> f, node |-> node, child |-> child,
     parameters |-> parameters, ref |-> ref]
Str(s) == Result("string", s, "", <<>>, <<>>, <<>>, "")
Thrown(msg) == Result("throw", msg, "", <<>>, <<>>, <<>>, "")
Callback(f, node, child) == Result("function", "", f, node, child, <<>>, "")
NoResult == Result("none", "", "", <<>>, <<>>, <<>>, "")

\* utils.checkExists applied to an optional field.
checkExistsError == "Expected value to be defined, but got undefined"

(***************************************************************************)
(* IndentedTextWriter and TypescriptTextWriter.                            *)
(***************************************************************************)
\* new TypescriptTextWriter(new IndentedTextWriter(...), maxLineLength,
\* bannedTypes): nothing written, and the banned types of the configuration.
TextWriter(bannedTypes) ==
    [indent |-> 0, text |-> "", log |-> <<>>, thrown |-> FALSE, error |-> "",
     bannedTypes |-> bannedTypes]
\* The writer of a configuration that bans Object and Function.
NewWriter == TextWriter(<<"Object", "Function">>)

Throw(w, msg) == IF w.thrown THEN w ELSE [w EXCEPT !.thrown = TRUE, !.error = msg]

write(w, chunk) == IF w.thrown THEN w ELSE [w EXCEPT !.text = @ \o chunk]
startIndentedLine(w, chunk) == write(w, Repeat(tabString, w.indent) \o chunk)
endIndentedLine(w, chunk) == write(w, chunk \o Repeat(tabString, w.indent))
writeLine(w, chunk) == startIndentedLine(w, chunk \o NL)
writeNewLine(w, chunk) == endIndentedLine(w, chunk \o NL)
indentInc(w) == IF w.thrown THEN w ELSE [w EXCEPT !.indent = @ + 1]
indentDec(w) == IF w.thrown THEN w ELSE [w EXCEPT !.indent = @ - 1]
Logged(w, e) == IF w.thrown THEN w ELSE [w EXCEPT !.log = Append(@, e)]

newLine(w, chunk) == startIndentedLine(w, chunk)
endLine(w, chunk) == write(write(w, chunk), NL)

formatPropertyName(name) ==
    IF HasChar(name, ".") \/ HasChar(name, "-") \/ HasChar(name, "@")
    THEN "\"" \o name \o "\""
    ELSE name

\* The directive written before a banned type.
ignoreBannedType == "// tslint:disable-next-line:ban-types"

\* type.match(new RegExp(`\\b${bannedType}\\b`)), for a banned type that is
\* a word of letters and digits.
MatchesWord(type, word) ==
    \E i \in 1..(Len(type) + 1 - Len(word)) :
        /\ SubSeq(type, i, i + Len(word) - 1) = word
        /\ (i = 1 \/ ~IsWordChar(CharAt(type, i - 1)))
        /\ (i + Len(word) > Len(type) \/ ~IsWordChar(CharAt(type, i + Len(word))))
includesBannedType(w, type) ==
    \E i \in 1..Len(w.bannedTypes) : MatchesWord(type, w.bannedTypes[i])

\* tslint.hasPrefixI: a capital I followed by another capital.
hasPrefixI(name) ==
    Len(name) >= 2 /\ CharAt(name, 1) = "I" /\ HasChar(Upper, CharAt(name, 2))

\* utils.getResourceTypeName: the dash-separated parts, each with its first
\* letter raised, followed by `Resource`.
upperFirstAll(parts) == [i \in 1..Len(parts) |-> upperFirst(parts[i])]
getResourceTypeName(resourceName) ==
    Join(upperFirstAll(split(resourceName, "-")), "") \o "Resource"

(***************************************************************************)
(* TypescriptTextWriter.comment.  The text of a comment is a sequence of   *)
(* UTF-16 code units: an ASCII character is the string of that character,  *)
(* a code unit above U+007F the string of its name ("U+1680"), so that     *)
(* every white space of JavaScript and every irregular space of app.ts     *)
(* can stand in a text and counts as one unit of its length.               *)
(***************************************************************************)
maxLineLength == 60    \* Configuration.maxLineLength
zeroWidthJoinerCharacter == "^"   \* stands for U+200D of constants.js
jsdocCommentStart == "/**"
jsdocCommentEnd == "*/"

\* The code units of a string of ASCII characters.
\* A function on 1..n as the tuple it is.
Tuple(f) == SubSeq(f, 1, Len(f))
codeUnits(s) == Tuple([i \in 1..Len(s) |-> CharAt(s, i)])
\* The string of a sequence of code units.
RECURSIVE toText(_)
toText(units) ==
    IF Len(units) = 0 THEN ""
    ELSE IF Len(units) = 1 THEN units[1]
    ELSE toText(SubSeq(units, 1, Len(units) \div 2))
         \o toText(SubSeq(units, Len(units) \div 2 + 1, Len(units)))

\* app.ts:51-78, in the order of the catalogue.
irregularSpaces ==
    <<"U+000B", "\f", "U+00A0", "U+0085", "U+1680", "U+180E", "U+FEFF",
      "U+2000", "U+2001", "U+2002", "U+2003", "U+2004", "U+2005", "U+2006",
      "U+2007", "U+2008", "U+2009", "U+200A", "U+200B", "U+2028", "U+2029",
      "U+202F", "U+205F", "U+3000">>

\* The WhiteSpace and LineTerminator code units of ECMAScript, which
\* String.prototype.trim strips: not U+0085, U+180E and U+200B.
WhiteSpace ==
    {"\t", "U+000B", "\f", " ", "U+00A0", "U+FEFF", "U+1680",
     "U+2000", "U+2001", "U+2002", "U+2003", "U+2004", "U+2005", "U+2006",
     "U+2007", "U+2008", "U+2009", "U+200A", "U+202F", "U+205F", "U+3000"}
LineTerminator == {NL, "\r", "U+2028", "U+2029"}
IsSpace(c) == c \in WhiteSpace \cup LineTerminator

RECURSIVE trimStart(_)
trimStart(s) == IF Len(s) > 0 /\ IsSpace(s[1])
                THEN trimStart(SubSeq(s, 2, Len(s))) ELSE s
RECURSIVE trimEnd(_)
trimEnd(s) == IF Len(s) > 0 /\ IsSpace(s[Len(s)])
              THEN trimEnd(SubSeq(s, 1, Len(s) - 1)) ELSE s
trim(s) == trimEnd(trimStart(s))

\* Where pat first stands in s, which includes it.
firstAt(s, pat) ==
    CHOOSE i \in 1..(Len(s) + 1 - Len(pat)) :
        /\ SubSeq(s, i, i + Len(pat) - 1) = pat
        /\ \A j \in 1..(i - 1) : SubSeq(s, j, j + Len(pat) - 1) # pat
\* String.prototype.replace with a global pattern of one literal.
RECURSIVE replaceAll(_, _, _)
replaceAll(s, pat, rep) ==
    IF ~includes(s, pat) THEN s
    ELSE SubSeq(s, 1, firstAt(s, pat) - 1) \o rep
         \o replaceAll(SubSeq(s, firstAt(s, pat) + Len(pat), Len(s)), pat, rep)

\* app.ts:243-248: `*/` and the JSDoc tags are defused with a joiner.  The
\* tag pattern @(class|this|type(?:def)?|property) puts the joiner after the
\* `@` of each tag; `@typedef` is met as the `@type` it begins with.
defuse(text, tag) ==
    replaceAll(text, codeUnits("@" \o tag),
               <<"@", zeroWidthJoinerCharacter>> \o codeUnits(tag))
escapeComment(text) ==
    defuse(defuse(defuse(defuse(
        replaceAll(text, <<"*", "/">>, <<"*", zeroWidthJoinerCharacter, "/">>),
        "class"), "this"), "type"), "property")

\* The width budget of a comment at the writer's indent.
commentUsed(w) == w.indent * Len(tabString)
                  + Len(jsdocCommentStart \o "  " \o jsdocCommentEnd)
\* A variant of commentBudget that forgets the indent and the delimiters.
commentBudgetOfWholeLine(w) == [neg |-> FALSE, abs |-> maxLineLength]

commentBudget(w) ==
    [neg |-> commentUsed(w) > maxLineLength,
     abs |-> IF commentUsed(w) > maxLineLength THEN commentUsed(w) - maxLineLength
             ELSE maxLineLength - commentUsed(w)]
\* n > budget, for a budget that may be negative.
Exceeds(n, budget) == budget.neg \/ n > budget.abs

\* String.prototype.split(' ') of a line.
RECURSIVE splitWords(_)
splitWords(line) ==
    IF \A i \in 1..Len(line) : line[i] # " " THEN <<line>>
    ELSE <<SubSeq(line, 1, firstAt(line, <<" ">>) - 1)>>
         \o splitWords(SubSeq(line, firstAt(line, <<" ">>) + 1, Len(line)))

\* app.ts:262-273: the words of one over-long line packed into lines.
RECURSIVE wrapWords(_, _, _, _)
wrapWords(words, lines, curLine, budget) ==
    IF Len(words) = 0 THEN Append(lines, curLine)
    ELSE IF Exceeds(Len(curLine) + Len(" ") + Len(words[1]), budget)
    THEN wrapWords(Tail(words), Append(lines, curLine), words[1], budget)
    ELSE IF curLine = <<>>
    THEN wrapWords(Tail(words), lines, words[1], budget)
    ELSE wrapWords(Tail(words), lines, curLine \o <<" ">> \o words[1], budget)

RECURSIVE wrapLines(_, _)
wrapLines(textLines, budget) ==
    IF Len(textLines) = 0 THEN <<>>
    ELSE (IF Exceeds(Len(textLines[1]), budget)
          THEN wrapWords(splitWords(textLines[1]), <<>>, <<>>, budget)
          ELSE <<textLines[1]>>)
         \o wrapLines(Tail(textLines), budget)

\* app.ts:279: lines.map(x => x.trim()).
trimAll(lines) == Tuple([i \in 1..Len(lines) |-> trim(lines[i])])

\* line.replace(irregularSpace, ' ') for each of the irregular spaces: every
\* pattern is one code unit and global, and a space is no irregular space,
\* so the passes of the loop amount to one over the code units of the line.
replaceSpace(line, spaces) ==
    Tuple([i \in 1..Len(line) |->
              IF \E k \in 1..Len(spaces) : line[i] = spaces[k] THEN " " ELSE line[i]])
\* app.ts:281-283: every irregular space of every line becomes a space.
replaceIrregularSpaces(lines, spaces) ==
    Tuple([i \in 1..Len(lines) |-> replaceSpace(lines[i], spaces)])

\* String.prototype.split(/\r?\n/g): a line ends at "\n", or at the "\r"
\* that stands just before it.
RECURSIVE splitLines(_)
splitLines(s) ==
    IF \A i \in 1..Len(s) : s[i] # NL THEN <<s>>
    ELSE <<IF firstAt(s, <<NL>>) > 1 /\ s[firstAt(s, <<NL>>) - 1] = "\r"
           THEN SubSeq(s, 1, firstAt(s, <<NL>>) - 2)
           ELSE SubSeq(s, 1, firstAt(s, <<NL>>) - 1)>>
         \o splitLines(SubSeq(s, firstAt(s, <<NL>>) + 1, Len(s)))

RECURSIVE writeCommentLines(_, _)
writeCommentLines(w, lines) ==
    IF Len(lines) = 0 THEN w
    ELSE writeCommentLines(
             IF Len(lines[1]) > 0 THEN writeLine(w, " * " \o toText(lines[1]))
             ELSE writeLine(w, " *"),
             Tail(lines))

commentLines(w, text) ==
    replaceIrregularSpaces(
        trimAll(wrapLines(splitLines(trim(escapeComment(text))), commentBudget(w))),
        irregularSpaces)

\* app.ts:285-293: some line is longer than the budget.
longestLineExceeds(w, lines) ==
    \E i \in 1..Len(lines) : Exceeds(Len(lines[i]), commentBudget(w))

commentMarker(w, tooLong, marker) == IF tooLong THEN writeLine(w, marker) ELSE w

commentBlock(w, lines) ==
    IF Len(lines) = 1
    THEN writeLine(w, jsdocCommentStart \o " " \o toText(lines[1]) \o " " \o jsdocCommentEnd)
    ELSE writeLine(writeCommentLines(writeLine(w, jsdocCommentStart), lines),
                   " " \o jsdocCommentEnd)

writeComment(w, text, lines, tooLong) ==
    commentMarker(
        commentBlock(
            commentMarker(Logged(w, [op |-> "comment", text |-> text,
                                     lines |-> lines, markers |-> tooLong]),
                          tooLong, "// tslint:disable:max-line-length"),
            lines),
        tooLong, "// tslint:enable:max-line-length")

commentOf(w, text, lines) == writeComment(w, text, lines, longestLineExceeds(w, lines))

\* app.ts:238-308, for a text given by its code units.
comment(w, text) ==
    IF Len(text) = 0 \/ Len(trim(text)) = 0 THEN w
    ELSE commentOf(w, text, commentLines(w, text))

\* comment for a text of ASCII characters, given as a string.
commentOfString(w, text) == comment(w, codeUnits(text))

(***************************************************************************)
(* Blocks.  The body of a block is a callback; a block is therefore its    *)
(* opening half, the body, and its closing half, which an exception thrown *)
(* by the body skips (there is no try/finally in app.ts:141-216).          *)
(***************************************************************************)
bracesOpen(w, text) == indentInc(writeLine(w, text \o " {"))
bracesClose(w) == writeLine(indentDec(w), "}")

interfaceRules(name, emptyInterface) ==
    (IF hasPrefixI(name) THEN <<"interface-name">> ELSE <<>>)
    \o (IF emptyInterface THEN <<"no-empty-interface">> ELSE <<>>)
interfaceDirective(w, ignoreRules) ==
    IF Len(ignoreRules) > 0
    THEN writeLine(w, "// tslint:disable-next-line:" \o Join(ignoreRules, " "))
    ELSE w
interfaceWith(w, name, ignoreRules) ==
    bracesOpen(interfaceDirective(Logged(w, [op |-> "interface", name |-> name,
                                             ignoreRules |-> ignoreRules]),
                                  ignoreRules),
               "interface " \o name)
interfaceOpen(w, name, emptyInterface) ==
    interfaceWith(w, name, interfaceRules(name, emptyInterface))
interfaceClose(w) == bracesClose(w)

anonymousTypeOpen(w) == indentInc(endLine(w, "{"))
anonymousTypeClose(w) == startIndentedLine(indentDec(w), "}")

scopeOpen(w, startTag) == indentInc(write(write(w, startTag), NL))
scopeClose(w, endTag) == startIndentedLine(indentDec(w), endTag)

(***************************************************************************)
(* getType (app.ts:394-454) and the callbacks it returns.                  *)
(***************************************************************************)
\* What every plain object answers besides its own keys: the members of
\* Object.prototype, functions all but __proto__, which is the prototype.
ObjectPrototype ==
    {"constructor", "toString", "toLocaleString", "valueOf", "hasOwnProperty",
     "isPrototypeOf", "propertyIsEnumerable", "__defineGetter__",
     "__defineSetter__", "__lookupGetter__", "__lookupSetter__", "__proto__"}
Native(name) == Result("function", "", "native", <<>>, <<>>, <<>>, name)
inherited(name) ==
    IF name = "__proto__" THEN Result("object", "", "", <<>>, <<>>, <<>>, name)
    ELSE Native(name)

\* object[key] of a plain object with the entries m.
Get(m, key) ==
    IF HasKey(m, key) THEN <<[k |-> "own", val |-> Lookup(m, key)[1]]>>
    ELSE IF key \in ObjectPrototype THEN <<[k |-> "inherited", val |-> inherited(key)]>>
    ELSE <<>>

\* typesMap[type] (app.ts:33-38).
typesMap(t) ==
    CASE t = "integer" -> <<Str("number")>>
      [] t = "object" -> <<Str("any")>>
      [] t = "any" -> <<Str("any")>>
      [] t = "string" -> <<Str("string")>>
      [] t \in ObjectPrototype -> <<inherited(t)>>
      [] OTHER -> <<>>

\* `${value}` of a string, of a function of Object.prototype and of an object.
templateText(value) ==
    CASE value.k = "string" -> value.s
      [] value.k = "function" ->
             "function " \o (IF value.ref = "constructor" THEN "Object" ELSE value.ref)
             \o "() { [native code] }"
      [] OTHER -> "[object Object]"

\* A function of Object.prototype called as a writer callback, that is with
\* no receiver: Object and toString return, the others throw a TypeError.
calledOnUndefined(name) ==
    IF name = "toLocaleString"
    THEN "Object.prototype.toLocaleString called on null or undefined"
    ELSE "Cannot convert undefined or null to object"
invokeNative(cb, w) ==
    IF cb.ref \in {"constructor", "toString"} THEN w
    ELSE Throw(w, calledOnUndefined(cb.ref))

\* _.isEmpty of an optional record.
isEmpty(optional) == optional = <<>> \/ Len(optional[1]) = 0

\* A variant of isEmptySchema that forgets additionalProperties.
isEmptySchemaIgnoringMap(schema) == isEmpty(schema.properties)

isEmptySchema(schema) ==
    isEmpty(schema.properties) /\ schema.additionalProperties = <<>>

RECURSIVE getType(_, _)

\* A variant of arrayTypeOf that returns a callback child unwrapped.
arrayTypeOfUnwrapped(child) ==
    CASE child.k = "throw" -> child
      [] child.k = "string" -> Str(child.s \o "[]")
      [] OTHER -> child

\* app.ts:401-411: the array type of the child's rendering.
arrayTypeOf(child) ==
    CASE child.k = "throw" -> child
      [] child.k = "string" -> Str(child.s \o "[]")
      [] child.k = "function" -> Callback("arrayOf", <<>>, <<child>>)
      [] OTHER -> Str("[]")

getTypeArray(type, schemas) ==
    IF type.items = <<>> THEN Thrown(checkExistsError)
    ELSE arrayTypeOf(getType(type.items[1], schemas))

\* typesMap[type.type] || type.type
tsTypeOf(kind, mapped) == IF mapped # <<>> THEN mapped[1] ELSE Str(kind)
\* type.repeated ? `${tsType} | ${tsType}[]` : tsType
scalarType(tsType, repeated) ==
    IF repeated THEN Str(templateText(tsType) \o " | " \o templateText(tsType) \o "[]")
    ELSE tsType
getTypeScalar(type) ==
    scalarType(tsTypeOf(type.type, typesMap(type.type)), type.repeated)

\* app.ts:446-452.  A member of Object.prototype has neither properties nor
\* additionalProperties: it passes for an empty schema.
refType(ref, referencedType) ==
    IF referencedType = <<>>
    THEN Thrown("Cannot read properties of undefined (reading 'properties')")
    ELSE IF referencedType[1].k = "inherited" THEN Str("any")
    ELSE IF isEmptySchema(referencedType[1].val) THEN Str("any")
    ELSE Str(ref)
getTypeRef(type, schemas) == refType(type.ref, Get(schemas, type.ref))

getType(type, schemas) ==
    IF type.type = "array" THEN getTypeArray(type, schemas)
    ELSE IF type.type = "object" /\ type.properties # <<>>
         THEN Callback("anonymousType", <<type>>, <<>>)
    ELSE IF type.type = "object" /\ type.additionalProperties # <<>>
         THEN Callback("mapType", <<type>>, <<>>)
    ELSE IF type.type # "" THEN getTypeScalar(type)
    ELSE IF type.ref # "" THEN getTypeRef(type, schemas)
    ELSE Thrown("")

formatComment(c) == IF c = "" THEN "" ELSE c

RECURSIVE invoke(_, _, _)
RECURSIVE writeSchemaProperties(_, _, _)

\* TypescriptTextWriter.write of a string or of a callback.
writeChunk(w, chunk, schemas) ==
    IF chunk.k = "string" THEN write(w, chunk.s)
    ELSE IF chunk.k = "function" THEN invoke(chunk, w, schemas)
    ELSE w

propertyLabel(name, required) ==
    formatPropertyName(name) \o (IF required THEN "" ELSE "?") \o ": "

propertyLogged(w, name, type, required, schemas) ==
    IF type.k = "function"
    THEN endLine(invoke(type, startIndentedLine(w, propertyLabel(name, required)),
                        schemas), ";")
    ELSE IF type.k = "string"
    THEN writeLine(IF includesBannedType(w, type.s) THEN writeLine(w, ignoreBannedType)
                   ELSE w,
                   propertyLabel(name, required) \o type.s \o ";")
    ELSE w

\* TypescriptTextWriter.property.
property(w, name, type, required, schemas) ==
    propertyLogged(Logged(w, [op |-> "property", name |-> name, type |-> type,
                              required |-> required]),
                   name, type, required, schemas)

propertyOrThrow(w, name, type, required, schemas) ==
    IF type.k = "throw" THEN Throw(w, type.s)
    ELSE property(w, name, type, required, schemas)

\* writer.property(name, getType(schema, schemas), required): the argument
\* is evaluated first, and its exception leaves the property unwritten.
writeProperty(w, name, schema, required, schemas) ==
    IF w.thrown THEN w
    ELSE propertyOrThrow(w, name, getType(schema, schemas), required, schemas)

describedProperty(w, key, data, schemas) ==
    writeProperty(IF data.description # ""
                  THEN commentOfString(w, formatComment(data.description)) ELSE w,
                  key, data, data.required, schemas)

\* _.forEach(properties, ...) of getType's anonymous type, of a request
\* parameter callback and of a schema interface.
writeSchemaProperties(w, properties, schemas) ==
    IF Len(properties) = 0 \/ w.thrown THEN w
    ELSE writeSchemaProperties(
             describedProperty(w, properties[1].key, properties[1].val, schemas),
             Tail(properties), schemas)

invokeArrayOf(cb, w, schemas) ==
    write(invoke(cb.child[1], write(w, "Array<"), schemas), ">")

indexSignature(w, type, schemas) ==
    IF type.additionalProperties # <<>>
    THEN writeProperty(w, "[key: string]", type.additionalProperties[1], TRUE, schemas)
    ELSE w

invokeAnonymousType(cb, w, schemas) ==
    anonymousTypeClose(
        indexSignature(
            writeSchemaProperties(anonymousTypeOpen(w),
                                  ownProperties(cb.node[1].properties[1]), schemas),
            cb.node[1], schemas))

mapTypeOf(w, child, schemas) ==
    IF child.k = "throw" THEN Throw(w, child.s)
    ELSE write(writeChunk(write(w, "{ [P in string]: "), child, schemas), " }")

invokeMapType(cb, w, schemas) ==
    mapTypeOf(w, getType(cb.node[1].additionalProperties[1], schemas), schemas)

\* App.createRequestParameterWriterCallback (app.ts:518-541).
createRequestParameterWriterCallback(parameters, ref) ==
    Result("function", "", "requestParameterWriterCallback", <<>>, <<>>, parameters, ref)

requestBody(w, ref, schemas) ==
    IF ref # ""
    THEN property(commentOfString(w, "Request body"), "resource", Str(ref), TRUE, schemas)
    ELSE w

invokeRequestParameterWriterCallback(cb, w, schemas) ==
    anonymousTypeClose(
        requestBody(writeSchemaProperties(anonymousTypeOpen(w),
                                          ownProperties(cb.parameters), schemas),
                    cb.ref, schemas))

invoke(cb, w, schemas) ==
    IF w.thrown THEN w
    ELSE CASE cb.f = "arrayOf" -> invokeArrayOf(cb, w, schemas)
           [] cb.f = "anonymousType" -> invokeAnonymousType(cb, w, schemas)
           [] cb.f = "mapType" -> invokeMapType(cb, w, schemas)
           [] cb.f = "requestParameterWriterCallback" ->
                  invokeRequestParameterWriterCallback(cb, w, schemas)
           [] cb.f = "native" -> invokeNative(cb, w)
           [] OTHER -> w

(***************************************************************************)
(* TypescriptTextWriter.method (app.ts:310-358).                           *)
(***************************************************************************)
Parameter(name, type, required) ==
    [parameter |-> name, type |-> type, required |-> required]

bannedParameter(w, p) ==
    IF p.type.k = "string" /\ includesBannedType(w, p.type.s)
    THEN writeNewLine(w, ignoreBannedType) ELSE w

parameterSeparator(w, last, singleLine) ==
    IF last THEN w
    ELSE IF singleLine THEN write(write(w, ","), " ")
    ELSE writeNewLine(write(w, ","), "")

methodParameter(w, p, last, singleLine, schemas) ==
    parameterSeparator(
        writeChunk(write(bannedParameter(w, p),
                         p.parameter \o (IF p.required THEN "" ELSE "?") \o ": "),
                   p.type, schemas),
        last, singleLine)

RECURSIVE writeMethodParameters(_, _, _, _, _)
writeMethodParameters(w, parameters, index, singleLine, schemas) ==
    IF index > Len(parameters) \/ w.thrown THEN w
    ELSE writeMethodParameters(
             methodParameter(w, parameters[index], index = Len(parameters),
                             singleLine, schemas),
             parameters, index + 1, singleLine, schemas)

bannedReturnBefore(w, singleLine, banned) ==
    IF singleLine /\ banned THEN writeLine(w, ignoreBannedType) ELSE w
bannedReturnAfter(w, singleLine, banned) ==
    IF ~singleLine /\ banned
    THEN writeNewLine(writeNewLine(w, ""), ignoreBannedType) ELSE w

methodLogged(w, name, parameters, returnType, singleLine, schemas) ==
    endLine(
        write(bannedReturnAfter(
                  writeMethodParameters(
                      startIndentedLine(
                          bannedReturnBefore(w, singleLine,
                                             includesBannedType(w, returnType)),
                          name \o "("),
                      parameters, 1, singleLine, schemas),
                  singleLine, includesBannedType(w, returnType)),
              "): " \o returnType \o ";"),
        "")

method(w, name, parameters, returnType, singleLine, schemas) ==
    methodLogged(Logged(w, [op |-> "method", name |-> name, parameters |-> parameters,
                            returnType |-> returnType]),
                 name, parameters, returnType, singleLine, schemas)

(***************************************************************************)
(* getMethodReturn (app.ts:462-479).  A method is                          *)
(* [id, request, response, parameters, description]: id and parameters are *)
(* optional, request is the reference name of method.request?.$ref ("" when*)
(* there is none), response is absent or the one-element sequence holding  *)
(* the optional $ref of method.response.                                   *)
(***************************************************************************)
RestMethod(id, requestRef, response, parameters) ==
    [id |-> <<id>>, request |-> requestRef, response |-> response,
     parameters |-> parameters, description |-> ""]
WithoutId(m) == [m EXCEPT !.id = <<>>]
NoResponse == <<>>
ResponseRef(name) == << <<name>> >>
ResponseWithoutRef == << <<>> >>

requestName(schemas) == IF HasKey(schemas, "Request") THEN "client.Request" ELSE "Request"

\* A variant of responseType that only asks whether the schema exists.
responseTypeOfAnySchema(name, ref, schema) ==
    IF schema # <<>> THEN Str(name \o "<" \o ref \o ">") ELSE Str(name \o "<{}>")

\* schema && !_.isEmpty(schema.properties), for the own schema of the name:
\* a member of Object.prototype under that name has no properties.
responseType(name, ref, schema) ==
    IF schema # <<>> /\ ~isEmpty(schema[1].properties)
    THEN Str(name \o "<" \o ref \o ">")
    ELSE Str(name \o "<{}>")

getMethodReturn(m, schemas) ==
    IF m.response # <<>>
    THEN IF m.response[1] = <<>> THEN Thrown(checkExistsError)
         ELSE responseType(requestName(schemas), m.response[1][1],
                           Lookup(schemas, m.response[1][1]))
    ELSE Str(requestName(schemas) \o "<void>")

(***************************************************************************)
(* App.writeResources (app.ts:546-651).  A resource is [methods,           *)
(* resources], both optional ordered maps.  The walk threads               *)
(* [w, written]: the writer and writtenTopLevelResourceNames.              *)
(***************************************************************************)
RestResource(methods, resources) == [methods |-> methods, resources |-> resources]

\* getName (app.ts:381-392): the text after the last dot.
getName(path) ==
    IF path = "" THEN <<>>
    ELSE <<SubSeq(path, LastIndexIn(path, ".") + 1, Len(path))>>

\* Object.entries(resource.methods || {})
allMethodsOf(resource) ==
    IF resource.methods = <<>> THEN <<>> ELSE ownProperties(resource.methods[1])

\* allMethods.filter(([, method]) => checkExists(method.id).startsWith(`${namespace}.`))
methodsInNamespace(allMethods, namespace) ==
    SelectSeq(allMethods, LAMBDA e : startsWith(e.val.id[1], namespace \o "."))

someIdMissing(allMethods) == \E i \in 1..Len(allMethods) : allMethods[i].val.id = <<>>

supposedToBeEmpty(resource) ==
    /\ Len(allMethodsOf(resource)) = 0
    /\ (resource.resources = <<>> \/ Len(resource.resources[1]) = 0)

\* A variant of mergeParameters that leaves the spread unsorted.
mergeParametersUnsorted(parameters, m) ==
    Spread(parameters, IF m.parameters = <<>> THEN <<>> ELSE m.parameters[1])

\* sortObject({...parameters, ...method.parameters})
mergeParameters(parameters, m) ==
    sortObject(Spread(parameters, IF m.parameters = <<>> THEN <<>> ELSE m.parameters[1]))

\* A variant of requestOverloadWanted that looks at the request body only.
requestOverloadWantedWithoutBody(requestParameters, requestRef) == requestRef = ""

\* !requestParameters.resource || !requestRef
requestOverloadWanted(requestParameters, requestRef) ==
    ~HasKey(requestParameters, "resource") \/ requestRef = ""

\* A variant of requestOverload that omits the request body reference.
requestOverloadWithoutResource(w, name, requestParameters, requestRef, returnType, schemas) ==
    IF requestOverloadWanted(requestParameters, requestRef)
    THEN method(w, name,
                <<Parameter("request",
                            createRequestParameterWriterCallback(requestParameters, ""),
                            requestRef # "")>>,
                returnType, FALSE, schemas)
    ELSE w

\* app.ts:597-614: method(request).
requestOverload(w, name, requestParameters, requestRef, returnType, schemas) ==
    IF requestOverloadWanted(requestParameters, requestRef)
    THEN method(w, name,
                <<Parameter("request",
                            createRequestParameterWriterCallback(requestParameters,
                                                                 requestRef),
                            requestRef # "")>>,
                returnType, FALSE, schemas)
    ELSE w

\* app.ts:616-637: method(request, body).
bodyOverload(w, name, requestParameters, requestRef, returnType, schemas) ==
    IF requestRef # ""
    THEN method(w, name,
                <<Parameter("request",
                            createRequestParameterWriterCallback(requestParameters, ""),
                            TRUE),
                  Parameter("body", Str(requestRef), TRUE)>>,
                returnType, FALSE, schemas)
    ELSE w

overloads(w, name, requestParameters, requestRef, returnType, schemas) ==
    IF name = <<>> THEN Throw(w, checkExistsError)
    ELSE IF returnType.k = "throw" THEN Throw(w, returnType.s)
    ELSE bodyOverload(
             requestOverload(w, formatPropertyName(name[1]), requestParameters,
                             requestRef, returnType.s, schemas),
             formatPropertyName(name[1]), requestParameters, requestRef,
             returnType.s, schemas)

\* The body of methods.forEach (app.ts:586-638).
writeResourceMethod(w, methodName, m, parameters, schemas) ==
    overloads(IF m.description # "" THEN commentOfString(w, formatComment(m.description)) ELSE w,
              getName(methodName), mergeParameters(parameters, m), m.request,
              getMethodReturn(m, schemas), schemas)

RECURSIVE writeResourceMethods(_, _, _, _)
writeResourceMethods(w, methods, parameters, schemas) ==
    IF Len(methods) = 0 \/ w.thrown THEN w
    ELSE writeResourceMethods(
             writeResourceMethod(w, methods[1].key, methods[1].val, parameters, schemas),
             Tail(methods), parameters, schemas)

\* app.ts:640-646: one property per child resource.
RECURSIVE writeChildResources(_, _, _)
writeChildResources(w, children, schemas) ==
    IF Len(children) = 0 \/ w.thrown THEN w
    ELSE writeChildResources(
             property(w, children[1].key, Str(getResourceTypeName(children[1].key)),
                      TRUE, schemas),
             Tail(children), schemas)

childResourcesOf(resource) ==
    IF resource.resources = <<>> THEN <<>> ELSE ownProperties(resource.resources[1])

\* app.ts:584-647: out.interface(resourceInterfaceName, () => {...}).
writeResourceInterface(st, resourceName, resource, methods, parameters, schemas) ==
    [w |-> interfaceClose(
               writeChildResources(
                   writeResourceMethods(
                       interfaceOpen(st.w, getResourceTypeName(resourceName), FALSE),
                       methods, parameters, schemas),
                   childResourcesOf(resource), schemas)),
     written |-> Append(st.written, resourceName)]

\* app.ts:568-584: what becomes of one resource in this namespace pass.
emitResource(st, resourceName, resource, parameters, schemas, namespace) ==
    IF st.w.thrown THEN st
    ELSE IF someIdMissing(allMethodsOf(resource))
    THEN [st EXCEPT !.w = Throw(@, checkExistsError)]
    ELSE IF ~supposedToBeEmpty(resource)
            /\ Len(methodsInNamespace(allMethodsOf(resource), namespace)) = 0
    THEN st
    ELSE writeResourceInterface(st, resourceName, resource,
                                methodsInNamespace(allMethodsOf(resource), namespace),
                                parameters, schemas)

RECURSIVE walkResources(_, _, _, _, _)
RECURSIVE nestedResources(_, _, _, _, _)

\* _.forEach(resources, ...) of writeResources.
walkResources(st, resources, parameters, schemas, namespace) ==
    IF Len(resources) = 0 \/ st.w.thrown THEN st
    ELSE walkResources(
             emitResource(nestedResources(st, resources[1].val, parameters, schemas,
                                          namespace),
                          resources[1].key, resources[1].val, parameters, schemas,
                          namespace),
             Tail(resources), parameters, schemas, namespace)

\* app.ts:558-566: the nested resources first; what the nested call returns
\* is dropped.
nestedResources(st, resource, parameters, schemas, namespace) ==
    IF resource.resources # <<>>
    THEN [w |-> walkResources([w |-> st.w, written |-> <<>>],
                              childResourcesOf(resource),
                              parameters, schemas, namespace).w,
          written |-> st.written]
    ELSE st

\* _.uniq(names).sort()
RECURSIVE uniq(_)
uniq(names) ==
    IF Len(names) = 0 THEN <<>>
    ELSE <<names[1]>> \o uniq(SelectSeq(Tail(names), LAMBDA n : n # names[1]))
\* Array.prototype.sort without a comparison: the order of the code units.
RECURSIVE insertName(_, _)
insertName(name, names) ==
    IF Len(names) = 0 THEN <<name>>
    ELSE IF StrLess(name, names[1]) THEN <<name>> \o names
    ELSE <<names[1]>> \o insertName(name, Tail(names))
RECURSIVE sortNames(_)
sortNames(names) ==
    IF Len(names) = 0 THEN <<>> ELSE insertName(names[1], sortNames(Tail(names)))

writeResources(w, resources, parameters, schemas, namespace) ==
    walkResources([w |-> w, written |-> <<>>], ownProperties(resources), parameters,
                  schemas, namespace)

(***************************************************************************)
(* Inputs: schema nodes and registries.                                    *)
(***************************************************************************)
ScalarKinds == {"integer", "number", "string", "boolean", "any"}
\* Kinds typesMap has no key for; Object.prototype answers the last three.
UnknownKinds == {"float", "toString", "valueOf", "__proto__"}
AbsentName == "Missing"   \* a name no registry defines
InheritedName == "toString"   \* a name no registry defines, of Object.prototype
\* The banned types of the configurations examined.
BannedTypeLists == {<<>>, <<"Object", "Function">>}

PropA(n) == <<Entry("a", n)>>
PropAB(n, m) == <<Entry("a", n), Entry("b", m)>>

BaseNodes ==
    {Scalar(k) : k \in ScalarKinds \cup UnknownKinds}
    \cup {Repeated(Scalar(k)) : k \in ScalarKinds \cup UnknownKinds}
    \cup {Ref(n) : n \in {"A", "B", AbsentName, InheritedName}}
    \cup {BareObject, Malformed, ArrayNoItems,
          ObjectOf(<<>>),
          ObjectOf(PropA(Scalar("string"))),
          ObjectOf(PropAB(Scalar("Function"), Scalar("valueOf"))),
          ObjectOf(<<Entry("b", Scalar("string")), Entry("10", Scalar("toString")),
                     Entry("9", Scalar("__proto__"))>>),
          ObjectOf(PropAB(Required(Ref("A")), ArrayOf(Scalar("integer")))),
          ObjectOf(PropA(Malformed)),
          MapOf(Scalar("string")),
          MapOf(Ref("A")),
          MapOf(ObjectOf(PropA(Scalar("boolean")))),
          MapOf(Malformed),
          ObjectWithMap(PropA(Scalar("string")), Scalar("number"))}

TypeNodes == {ArrayNest(n, d) : n \in BaseNodes, d \in 0..MaxArrayDepth}

\* What a registry may hold under one name: nothing, or one of these.
EntryShapes ==
    {ObjectOf(<<>>),
     ObjectOf(PropA(Scalar("string"))),
     MapOf(Scalar("string")),
     Scalar("string"),
     BareObject}
OptionalEntries == {<<>>} \cup {<<e>> : e \in EntryShapes}

Registry(a, b, request) ==
    (IF a = <<>> THEN <<>> ELSE <<Entry("A", a[1])>>)
    \o (IF b = <<>> THEN <<>> ELSE <<Entry("B", b[1])>>)
    \o (IF request = <<>> THEN <<>> ELSE <<Entry("Request", request[1])>>)

TypeRegistries == {Registry(a, b, <<>>) : a \in OptionalEntries, b \in OptionalEntries}
ReturnRegistries ==
    {Registry(a, <<>>, r) : a \in OptionalEntries,
                            r \in {<<>>, <<ObjectOf(PropA(Scalar("string")))>>}}

ReturnMethods ==
    {RestMethod("ns.res.get", "", r, <<>>) :
        r \in {NoResponse, ResponseWithoutRef, ResponseRef("A"), ResponseRef(AbsentName),
               ResponseRef(InheritedName)}}

(***************************************************************************)
(* getType and getMethodReturn applied to an input.                        *)
(***************************************************************************)
Idle == /\ ret = NoResult
        /\ seenSchemaRefs = {}
        /\ stack = <<>>
        /\ disk = NoFiles
        /\ requests = <<>>
        /\ pc = "start"

InitGetType ==
    /\ input \in {[op |-> "getType", type |-> n, schemas |-> r] :
                     n \in TypeNodes, r \in TypeRegistries}
    /\ writer \in {TextWriter(b) : b \in BannedTypeLists}
    /\ Idle

InitGetMethodReturn ==
    /\ input \in {[op |-> "getMethodReturn", method |-> m, schemas |-> r] :
                     m \in ReturnMethods, r \in ReturnRegistries}
    /\ writer = NewWriter
    /\ Idle

GetType ==
    /\ pc = "start"
    /\ input.op = "getType"
    /\ ret' = getType(input.type, input.schemas)
    /\ pc' = IF ret'.k = "throw" THEN "threw" ELSE "returned"
    /\ UNCHANGED <<input, disk, requests, writer, seenSchemaRefs, stack>>

\* TypescriptTextWriter.write(chunk) with the value getType returned.
WriteType ==
    /\ pc = "returned"
    /\ input.op = "getType"
    /\ writer' = writeChunk(writer, ret, input.schemas)
    /\ pc' = IF writer'.thrown THEN "threw" ELSE "written"
    /\ UNCHANGED <<input, disk, requests, ret, seenSchemaRefs, stack>>

GetMethodReturn ==
    /\ pc = "start"
    /\ input.op = "getMethodReturn"
    /\ ret' = getMethodReturn(input.method, input.schemas)
    /\ pc' = IF ret'.k = "throw" THEN "threw" ELSE "returned"
    /\ UNCHANGED <<input, disk, requests, writer, seenSchemaRefs, stack>>

InitType == InitGetType \/ InitGetMethodReturn
NextType == GetType \/ WriteType \/ GetMethodReturn
SpecType == InitType /\ [][NextType]_vars

(***************************************************************************)
(* Claims about getType and getMethodReturn, checked under SpecType.       *)
(***************************************************************************)
IsReferenceNode(type) == type.type = "" /\ type.ref # ""
HasNoShape(schema) ==
    /\ schema.properties \in {<<>>, << <<>> >>}
    /\ schema.additionalProperties = <<>>

\* C2: getType on a reference node whose target is in the registry returns
\* the flat token `any` when the target has no (or empty) properties and no
\* additionalProperties, and the bare reference name otherwise; writing the
\* result writes that token and nothing of the target.
C2_ReferenceIsFlatToken ==
    (/\ input.op = "getType"
     /\ pc \in {"returned", "written", "threw"}
     /\ IsReferenceNode(input.type)
     /\ HasKey(input.schemas, input.type.ref))
    => /\ pc # "threw"
       /\ ret = IF HasNoShape(Lookup(input.schemas, input.type.ref)[1])
                THEN Str("any") ELSE Str(input.type.ref)
       /\ pc = "written" => writer.text = ret.s /\ writer.log = <<>>

C2_Witness ==
    /\ input.op = "getType"
    /\ pc = "written"
    /\ input.type = Ref("B")
    /\ Lookup(input.schemas, "B") = <<Scalar("string")>>
    /\ Lookup(input.schemas, "A") = <<MapOf(Scalar("string"))>>
    /\ ret = Str("any")
    /\ writer.text = "any"

ScalarTable(kind) ==
    CASE kind = "integer" -> "number"
      [] kind = "number" -> "number"
      [] kind = "string" -> "string"
      [] kind = "boolean" -> "boolean"
      [] kind = "any" -> "any"
      [] OTHER -> ""
IsScalarNode(type) == type.type \notin {"", "array", "object"}

\* C3: for a scalar kind of {integer, number, string, boolean, any} getType
\* returns the token of the translation table (`T | T[]` when repeated), and
\* for any other scalar kind it raises an error instead of returning a token.
C3_ScalarTableOrError ==
    (/\ input.op = "getType"
     /\ pc # "start"
     /\ IsScalarNode(input.type))
    => IF input.type.type \in ScalarKinds
       THEN ret = Str(IF input.type.repeated
                      THEN ScalarTable(input.type.type) \o " | "
                           \o ScalarTable(input.type.type) \o "[]"
                      ELSE ScalarTable(input.type.type))
       ELSE ret.k = "throw"

\* C4: getType(array(n)) is getType(n) with array suffixing: the flat token
\* followed by `[]`, or a callback writing `Array<`, the nested rendering and
\* `>`; an array of arrays is wrapped twice.
C4_ArraySuffixing ==
    (/\ input.op = "getType"
     /\ pc # "start"
     /\ input.type.type = "array"
     /\ input.type.items # <<>>)
    => LET child == getType(input.type.items[1], input.schemas)
           nested == invoke(child, TextWriter(writer.bannedTypes), input.schemas)
       IN  /\ child.k = "throw" => ret = child
           /\ child.k = "string" => ret = Str(child.s \o "[]")
           /\ child.k = "function" =>
                 /\ ret.k = "function"
                 /\ pc = "written" => writer.text = "Array<" \o nested.text \o ">"
                 /\ pc \in {"written", "threw"} => ((pc = "threw") = nested.thrown)
           /\ input.type = ArrayNest(Scalar("string"), 2) => ret = Str("string[][]")
           /\ input.type = ArrayNest(Repeated(Scalar("integer")), 1)
                 => ret = Str("number | number[][]")
           /\ (input.type = ArrayNest(ObjectOf(PropA(Scalar("string"))), 2)
               /\ pc = "written")
                 => writer.text = "Array<Array<{\n    a?: string;\n}>>"

C4_Witness ==
    /\ input.op = "getType"
    /\ pc = "written"
    /\ input.type = ArrayNest(MapOf(Ref("A")), 2)
    /\ Lookup(input.schemas, "A") = <<ObjectOf(PropA(Scalar("string")))>>
    /\ writer.text = "Array<Array<{ [P in string]: A }>>"

\* C9: getMethodReturn parameterizes the request wrapper by the response
\* schema name when the declared response schema has at least one property,
\* by `{}` when it has none, and by `void` when no response is declared.
C9_MethodReturn ==
    (/\ input.op = "getMethodReturn"
     /\ pc = "returned")
    => LET wrapper == IF \E i \in 1..Len(input.schemas) : input.schemas[i].key = "Request"
                      THEN "client.Request" ELSE "Request"
           response == input.method.response
       IN  /\ response = <<>> => ret = Str(wrapper \o "<void>")
           /\ (response # <<>> /\ HasKey(input.schemas, response[1][1])) =>
                 ret = IF Lookup(input.schemas, response[1][1])[1].properties
                            \in {<<>>, << <<>> >>}
                       THEN Str(wrapper \o "<{}>")
                       ELSE Str(wrapper \o "<" \o response[1][1] \o ">")

C9_Witness ==
    /\ input.op = "getMethodReturn"
    /\ pc = "returned"
    /\ input.method.response = ResponseRef("A")
    /\ Lookup(input.schemas, "A") = <<MapOf(Scalar("string"))>>
    /\ HasKey(input.schemas, "Request")
    /\ ret = Str("client.Request<{}>")

\* The name a reference node under any number of array wrappers refers to
\* ("" when the node is no such reference).
ReferenceUnderArrays(type) ==
    IF type = Ref(type.ref) THEN type.ref
    ELSE IF \E d \in 1..MaxArrayDepth, n \in {"A", "B", AbsentName, InheritedName} :
               type = ArrayNest(Ref(n), d)
    THEN CHOOSE n \in {"A", "B", AbsentName, InheritedName} :
             \E d \in 1..MaxArrayDepth : type = ArrayNest(Ref(n), d)
    ELSE ""

\* C19, for getType: a reference to a name the registry does not hold
\* makes getType throw, unless Object.prototype answers the name.
C19_AbsentTypeReferenceFatal ==
    (/\ input.op = "getType"
     /\ pc # "start"
     /\ ReferenceUnderArrays(input.type) # ""
     /\ ReferenceUnderArrays(input.type) \notin ObjectPrototype
     /\ ~HasKey(input.schemas, ReferenceUnderArrays(input.type)))
    => ret.k = "throw"

\* C19: getType rendered a reference to a name of Object.prototype that the
\* registry does not hold.
C19_InheritedReferenceRendered ==
    /\ input.op = "getType"
    /\ pc = "written"
    /\ input.type = Ref(InheritedName)
    /\ ~HasKey(input.schemas, InheritedName)
    /\ writer.text = "any"

\* C19: a reference to a name the registry does not hold is fatal, in
\* getType and in getMethodReturn alike; none is rendered.
C19_AbsentReferenceFatal ==
    /\ C19_AbsentTypeReferenceFatal
    /\ (/\ input.op = "getMethodReturn"
        /\ pc # "start"
        /\ input.method.response # <<>>
        /\ input.method.response[1] # <<>>
        /\ ~HasKey(input.schemas, input.method.response[1][1]))
       => ret.k = "throw"

\* C19: getType threw on a reference to an absent name.
C19_AbsentTypeReferenceThrew ==
    /\ input.op = "getType"
    /\ pc = "threw"
    /\ input.type = ArrayOf(Ref(AbsentName))
    /\ ret.k = "throw"

\* C19: getMethodReturn rendered a response reference to an absent name.
C19_AbsentResponseDefaulted ==
    /\ input.op = "getMethodReturn"
    /\ pc = "returned"
    /\ input.method.response = ResponseRef(AbsentName)
    /\ ~HasKey(input.schemas, AbsentName)
    /\ ret = Str("Request<{}>")

(***************************************************************************)
(* writeResources applied to a resource tree in one namespace pass.  The   *)
(* writer stands inside `declare namespace gapi.client` and                *)
(* `namespace <ns>` (app.ts:703, 769), two levels deep.                    *)
(***************************************************************************)
NamespaceWriter == indentInc(indentInc(NewWriter))

ResourceSchemas ==
    {Registry(<<ObjectOf(PropA(Scalar("string")))>>, <<>>, <<>>),
     Registry(<<MapOf(Scalar("string"))>>, <<>>, <<ObjectOf(PropA(Scalar("string")))>>)}

ApiParameters ==
    {<<>>,
     <<Entry("fields", Scalar("string")), Entry("a", Scalar("integer"))>>,
     <<Entry("resource", Scalar("string"))>>,
     <<Entry("uploadType", Scalar("string")), Entry("upload_protocol", Scalar("string"))>>,
     <<Entry("10", Scalar("integer")), Entry("key", Scalar("string")),
       Entry("Alt", Scalar("string")), Entry("alt", Scalar("string"))>>}

MethodParameters ==
    {<<>>,
     <<PropA(Required(Scalar("string")))>>,
     << <<Entry("resource", Scalar("string")), Entry("b", Scalar("integer"))>> >>,
     << <<Entry("9", Scalar("string")), Entry("10", Required(Scalar("string"))),
          Entry("b", Scalar("integer"))>> >>}

Namespaces == {"ns", "ns2"}

ResourceMethods ==
    {RestMethod(id, rq, rs, p) : id \in {"ns.res.get", "ns2.res.get"},
                                 rq \in {"", "A"},
                                 rs \in {NoResponse, ResponseRef("A")},
                                 p \in MethodParameters}
BrokenMethods ==
    {WithoutId(RestMethod("", "", NoResponse, <<>>)),
     RestMethod("ns.res.get", "", ResponseWithoutRef, <<>>),
     RestMethod("ns.res.get", "", NoResponse, <<PropA(Malformed)>>)}

OneMethod(m) == RestResource(<< <<Entry("get", m)>> >>, <<>>)
TwoMethods(m1, m2) == RestResource(<< <<Entry("get", m1), Entry("list", m2)>> >>, <<>>)
EmptyResource == RestResource(<<>>, <<>>)
EmptyMapsResource == RestResource(<< <<>> >>, << <<>> >>)
PlainMethod(id) == RestMethod(id, "", NoResponse, <<>>)
BodyMethod(id) == RestMethod(id, "A", ResponseRef("A"), <<PropA(Required(Scalar("string")))>>)

LeafResources ==
    {EmptyResource, EmptyMapsResource}
    \cup {OneMethod(m) : m \in ResourceMethods \cup BrokenMethods}
    \cup {TwoMethods(m1, m2) : m1 \in {PlainMethod("ns.res.get"), BodyMethod("ns2.res.get")},
                               m2 \in {BodyMethod("ns.res.list"), PlainMethod("ns2.res.list")}}

ChildResources ==
    {EmptyResource, OneMethod(PlainMethod("ns.res.child.get")),
     OneMethod(BodyMethod("ns2.res.child.get")),
     RestResource(<<>>, << <<Entry("grand", OneMethod(PlainMethod("ns.res.child.grand.get")))>> >>)}

ParentResources ==
    {RestResource(ms, << <<Entry("child", c)>> >>) :
        ms \in {<<>>, << <<Entry("get", PlainMethod("ns.res.get"))>> >>,
                << <<Entry("get", BodyMethod("ns2.res.get"))>> >>},
        c \in ChildResources}

\* Trees of one top-level resource, of two with the reserved name, and of
\* five whose names the document gives in no order: the object enumerates
\* the two that are array indices first.
ResourceTrees ==
    {<<Entry("res", r)>> : r \in LeafResources \cup ParentResources}
    \cup {<<Entry("debugger", r1), Entry("my-res", r2)>> :
             r1 \in {EmptyResource, OneMethod(PlainMethod("ns.debugger.get"))},
             r2 \in {OneMethod(BodyMethod("ns.my-res.get")),
                     OneMethod(PlainMethod("ns2.my-res.get"))}}
    \cup {<<Entry("9", r9), Entry("10", OneMethod(PlainMethod("ns.10.get"))),
            Entry("b", rb), Entry("~", OneMethod(BodyMethod("ns.~.get"))),
            Entry("a", ra)>> :
             r9 \in {EmptyResource, OneMethod(PlainMethod("ns2.9.get"))},
             rb \in {OneMethod(PlainMethod("ns.b.get")),
                     RestResource(<< <<Entry("get", PlainMethod("ns.b.get"))>> >>,
                                  << <<Entry("child",
                                           OneMethod(PlainMethod("ns.b.child.get")))>> >>)},
             ra \in {OneMethod(PlainMethod("ns.a.get")),
                     OneMethod(PlainMethod("ns2.a.get"))}}

WriteResourcesInput(resources, parameters, schemas, namespace) ==
    [op |-> "writeResources", resources |-> resources, parameters |-> parameters,
     schemas |-> schemas, namespace |-> namespace]

InitRes ==
    /\ input \in {WriteResourcesInput(t, p, r, n) :
                     t \in ResourceTrees, p \in ApiParameters,
                     r \in ResourceSchemas, n \in Namespaces}
    /\ ret = NoResult
    /\ writer = NamespaceWriter
    /\ seenSchemaRefs = {}
    /\ stack = <<>>
    /\ disk = NoFiles
    /\ requests = <<>>
    /\ pc = "start"

Names(names) == [k |-> "names", names |-> names]

WriteResources ==
    /\ pc = "start"
    /\ input.op = "writeResources"
    /\ \E st \in {writeResources(writer, input.resources, input.parameters,
                                 input.schemas, input.namespace)} :
          /\ writer' = st.w
          /\ ret' = IF st.w.thrown THEN Thrown(st.w.error)
                    ELSE Names(sortNames(uniq(st.written)))
          /\ pc' = IF st.w.thrown THEN "threw" ELSE "returned"
    /\ UNCHANGED <<input, disk, requests, seenSchemaRefs, stack>>

NextRes == WriteResources
SpecRes == InitRes /\ [][NextRes]_vars

(***************************************************************************)
(* Claims about writeResources, checked under SpecRes.  The writer's log   *)
(* is a flat list of interface blocks: a nested resource's interface is    *)
(* written before its parent's is opened.                                  *)
(***************************************************************************)
RECURSIVE ResourcesIn(_)
ResourcesIn(resources) ==
    IF Len(resources) = 0 THEN <<>>
    ELSE <<resources[1]>> \o ResourcesIn(childResourcesOf(resources[1].val))
         \o ResourcesIn(Tail(resources))

Indices(log, kinds) == {i \in 1..Len(log) : log[i].op \in kinds}
InterfacesNamed(log, name) == {i \in Indices(log, {"interface"}) : log[i].name = name}
\* The entries after entry i up to the next entry of one of the kinds.
EntriesUpTo(log, i, kinds) ==
    LET next == {j \in Indices(log, kinds) : j > i}
        end == IF next = {} THEN Len(log)
               ELSE (CHOOSE j \in next : \A k \in next : j <= k) - 1
    IN  SubSeq(log, i + 1, end)
\* The writer.method calls for a short name within the interface of a resource.
Overloads(log, resourceName, shortName) ==
    LET at == InterfacesNamed(log, getResourceTypeName(resourceName))
    IN  IF at = {} THEN <<>>
        ELSE SelectSeq(EntriesUpTo(log, CHOOSE i \in at : TRUE, {"interface"}),
                       LAMBDA e : e.op = "method" /\ e.name = shortName)
OwnMethods(resource, namespace) ==
    SelectSeq(allMethodsOf(resource),
              LAMBDA e : /\ e.val.id # <<>>
                         /\ Len(e.val.id[1]) > Len(namespace)
                         /\ SubSeq(e.val.id[1], 1, Len(namespace) + 1) = namespace \o ".")
DeclaredParameters(m) == IF m.parameters = <<>> THEN <<>> ELSE m.parameters[1]
DefinesResource(parameters, m) ==
    HasKey(parameters, "resource") \/ HasKey(DeclaredParameters(m), "resource")
WalkReturned == input.op = "writeResources" /\ pc = "returned"

\* C5: a resource with zero methods and zero nested resources is written as
\* an empty interface preceded by the no-empty-interface directive, and a
\* resource with nested resources but no method of the current namespace
\* gets no interface in the pass.
C5_EmptyAndSkippedResources ==
    WalkReturned =>
        \A i \in 1..Len(ResourcesIn(input.resources)) :
            LET e == ResourcesIn(input.resources)[i]
                at == InterfacesNamed(writer.log, getResourceTypeName(e.key))
            IN  /\ (Len(allMethodsOf(e.val)) = 0 /\ Len(childResourcesOf(e.val)) = 0)
                      => /\ at # {}
                         /\ \A j \in at :
                               /\ EntriesUpTo(writer.log, j, {"interface"}) = <<>>
                               /\ writer.log[j].ignoreRules = <<"no-empty-interface">>
                         /\ includes(writer.text,
                                     "// tslint:disable-next-line:no-empty-interface"
                                     \o NL \o Repeat(tabString, 2) \o "interface "
                                     \o getResourceTypeName(e.key) \o " {" \o NL)
                /\ (Len(childResourcesOf(e.val)) > 0
                    /\ Len(OwnMethods(e.val, input.namespace)) = 0)
                      => at = {}

\* C5, second half alone: a resource with nested resources but no method of
\* the current namespace gets no interface in the pass.
C5_SkippedResource ==
    WalkReturned =>
        \A i \in 1..Len(ResourcesIn(input.resources)) :
            LET e == ResourcesIn(input.resources)[i]
            IN  (Len(childResourcesOf(e.val)) > 0
                 /\ Len(OwnMethods(e.val, input.namespace)) = 0)
                  => InterfacesNamed(writer.log, getResourceTypeName(e.key)) = {}

\* C6: every method of the current namespace gets the one-argument overload
\* exactly when it has no request-body reference or its merged parameters
\* define no `resource` key; a method without a request-body reference gets
\* that one overload and no two-argument overload.
C6_RequestOverload ==
    WalkReturned =>
        \A i \in 1..Len(ResourcesIn(input.resources)) :
            LET e == ResourcesIn(input.resources)[i]
                own == OwnMethods(e.val, input.namespace)
            IN  \A k \in 1..Len(own) :
                    LET m == own[k].val
                        calls == Overloads(writer.log, e.key, own[k].key)
                        oneArgument == SelectSeq(calls, LAMBDA c : Len(c.parameters) = 1)
                        twoArguments == SelectSeq(calls, LAMBDA c : Len(c.parameters) = 2)
                    IN  /\ Len(oneArgument) + Len(twoArguments) = Len(calls)
                        /\ Len(oneArgument) =
                              IF m.request = "" \/ ~DefinesResource(input.parameters, m)
                              THEN 1 ELSE 0
                        /\ \A c \in 1..Len(oneArgument) :
                              /\ oneArgument[c].parameters[1].parameter = "request"
                              /\ oneArgument[c].parameters[1].type.k = "function"
                        /\ m.request = "" => Len(calls) = 1 /\ Len(twoArguments) = 0

C6_Witness ==
    /\ WalkReturned
    /\ input.resources =
          <<Entry("res", OneMethod(RestMethod("ns.res.get", "", NoResponse,
                                              <<PropA(Required(Scalar("string")))>>)))>>
    /\ input.parameters = <<>>
    /\ input.namespace = "ns"
    /\ writer.text = "        interface ResResource {\n"
                     \o "            get(request?: {\n"
                     \o "                a: string;\n"
                     \o "            }): Request<void>;\n"
                     \o "        }\n"

\* The entries a request-object callback logs while an overload is written:
\* what follows the writer.method call up to the next one, the properties of
\* the child resources, which end the interface, left out.
IsChildProperty(x, resource) ==
    /\ x.op = "property"
    /\ \E c \in 1..Len(childResourcesOf(resource)) :
          /\ x.name = childResourcesOf(resource)[c].key
          /\ x.type = Str(getResourceTypeName(x.name))
RequestObjectEntries(log, e, call) ==
    LET at == CHOOSE i \in InterfacesNamed(log, getResourceTypeName(e.key)) : TRUE
        calls == {j \in Indices(log, {"method"}) : j > at /\ log[j] = call}
    IN  SelectSeq(EntriesUpTo(log, CHOOSE j \in calls : \A k \in calls : j <= k,
                              {"interface", "method"}),
                  LAMBDA x : ~IsChildProperty(x, e.val))
RequestBodyRendered(entries, body, required) ==
    /\ Len(entries) >= 2
    /\ entries[Len(entries) - 1].op = "comment"
    /\ entries[Len(entries) - 1].text = codeUnits("Request body")
    /\ entries[Len(entries)].op = "property"
    /\ entries[Len(entries)].name = "resource"
    /\ entries[Len(entries)].type = Str(body)
    /\ entries[Len(entries)].required = required
TwoOverloads(resourceOptional) ==
    WalkReturned =>
        \A i \in 1..Len(ResourcesIn(input.resources)) :
            LET e == ResourcesIn(input.resources)[i]
                own == OwnMethods(e.val, input.namespace)
            IN  \A k \in 1..Len(own) :
                    LET m == own[k].val
                        merged == mergeParameters(input.parameters, m)
                        calls == Overloads(writer.log, e.key, own[k].key)
                    IN  (m.request # "" /\ ~DefinesResource(input.parameters, m)) =>
                           /\ Len(calls) = 2
                           /\ calls[1].parameters =
                                 <<Parameter("request",
                                             createRequestParameterWriterCallback(
                                                 merged, m.request),
                                             TRUE)>>
                           /\ RequestBodyRendered(
                                  RequestObjectEntries(writer.log, e, calls[1]),
                                  m.request, ~resourceOptional)
                           /\ Len(RequestObjectEntries(writer.log, e, calls[1]))
                                 = Len(merged) + 2
                           /\ calls[2].parameters =
                                 <<Parameter("request",
                                             createRequestParameterWriterCallback(
                                                 merged, ""),
                                             TRUE),
                                   Parameter("body", Str(m.request), TRUE)>>
                           /\ Len(RequestObjectEntries(writer.log, e, calls[2]))
                                 = Len(merged)

\* C7 as stated: a method of the current namespace with a request-body
\* reference to Body and no `resource` among its merged parameters gets
\* exactly two overloads, the first with a request object holding the merged
\* parameters and `resource: Body` commented "Request body" and rendered as
\* an optional property, the second (request: {merged parameters}, body: Body).
C7_ResourceOptional == TwoOverloads(TRUE)

\* C7, amended: the same two overloads, with `resource: Body` rendered as a
\* required property of the first overload's request object.
C7_ResourceRequired == TwoOverloads(FALSE)

C7_Witness ==
    /\ WalkReturned
    /\ input.resources =
          <<Entry("res", OneMethod(RestMethod("ns.res.get", "A", NoResponse,
                                              <<PropA(Required(Scalar("string")))>>)))>>
    /\ input.parameters = <<>>
    /\ input.namespace = "ns"
    /\ ~HasKey(input.schemas, "Request")
    /\ writer.text = "        interface ResResource {\n"
                     \o "            get(request: {\n"
                     \o "                a: string;\n"
                     \o "                /** Request body */\n"
                     \o "                resource: A;\n"
                     \o "            }): Request<void>;\n"
                     \o "            get(request: {\n"
                     \o "                a: string;\n"
                     \o "            },\n"
                     \o "            body: A): Request<void>;\n"
                     \o "        }\n"

\* The parameter properties a request object renders, in order: all but the
\* request body, which comes last with its comment.
RenderedParameters(entries, requestRef) ==
    SelectSeq(IF requestRef # "" THEN SubSeq(entries, 1, Len(entries) - 2) ELSE entries,
              LAMBDA x : x.op = "property")
\* The decimal numerals that are array indices, among keys of nine digits
\* at most, and the integers they write.
IsNumeral(key) ==
    /\ Len(key) \in 1..9
    /\ \A i \in 1..Len(key) : CharAt(key, i) \in {CharAt(Digits, d) : d \in 1..10}
    /\ (Len(key) > 1 => CharAt(key, 1) # "0")
RECURSIVE NumeralValue(_)
NumeralValue(key) ==
    IF Len(key) = 0 THEN 0
    ELSE 10 * NumeralValue(SubSeq(key, 1, Len(key) - 1))
         + (CHOOSE d \in 0..9 : CharAt(Digits, d + 1) = CharAt(key, Len(key)))
\* The order of the keys of a sorted object as it is enumerated: the numerals
\* by value, then the other keys as localeCompare orders them.
EnumeratedBefore(a, b) ==
    IF IsNumeral(a) /\ IsNumeral(b) THEN NumeralValue(a) < NumeralValue(b)
    ELSE IF IsNumeral(a) THEN TRUE
    ELSE IF IsNumeral(b) THEN FALSE
    ELSE localeCompare(a, b) < 0
\* The order of localeCompare alone.
ComparedBefore(a, b) == localeCompare(a, b) < 0

MergedParameters(defaultsWin, Before(_, _)) ==
    WalkReturned =>
        \A i \in 1..Len(ResourcesIn(input.resources)) :
            LET e == ResourcesIn(input.resources)[i]
                own == OwnMethods(e.val, input.namespace)
            IN  \A k \in 1..Len(own) :
                    LET declared == DeclaredParameters(own[k].val)
                        defaults == input.parameters
                        calls == Overloads(writer.log, e.key, own[k].key)
                    IN  \A c \in 1..Len(calls) :
                            LET merged == calls[c].parameters[1].type.parameters
                                rendered == RenderedParameters(
                                    RequestObjectEntries(writer.log, e, calls[c]),
                                    calls[c].parameters[1].type.ref)
                            IN  /\ {merged[x].key : x \in 1..Len(merged)}
                                      = {declared[x].key : x \in 1..Len(declared)}
                                        \cup {defaults[x].key : x \in 1..Len(defaults)}
                                /\ \A x \in 1..Len(merged) :
                                      <<merged[x].val>> =
                                          IF HasKey(declared, merged[x].key)
                                             /\ HasKey(defaults, merged[x].key)
                                          THEN IF defaultsWin
                                               THEN Lookup(defaults, merged[x].key)
                                               ELSE Lookup(declared, merged[x].key)
                                          ELSE IF HasKey(declared, merged[x].key)
                                          THEN Lookup(declared, merged[x].key)
                                          ELSE Lookup(defaults, merged[x].key)
                                /\ \A x \in 1..(Len(merged) - 1) :
                                      Before(merged[x].key, merged[x + 1].key)
                                /\ Len(rendered) = Len(merged)
                                /\ \A x \in 1..Len(merged) :
                                      /\ rendered[x].name = merged[x].key
                                      /\ rendered[x].type
                                            = getType(merged[x].val, input.schemas)
                                      /\ rendered[x].required = merged[x].val.required

\* C8 as stated: the merged parameter set of a method is its declared
\* parameters overridden and extended by the default parameters (for a key
\* in both, the default's schema is rendered), rendered in sorted key order.
C8_DefaultsOverride == MergedParameters(TRUE, ComparedBefore)

\* C8, amended: the merged parameter set is the default parameters
\* overridden and extended by the method's declared parameters (for a key
\* in both, the method's schema is rendered), rendered in the order in which
\* the sorted object enumerates its keys: those that are array indices by
\* value, then the others as localeCompare orders them.
C8_DeclaredOverride == MergedParameters(FALSE, EnumeratedBefore)

\* C8, the precedence amended and the order as stated: sorted key order.
C8_DeclaredOverrideSorted == MergedParameters(FALSE, ComparedBefore)

\* C8: the method declares 9, 10 and b, the defaults 10, key, Alt and alt;
\* 10 is rendered as the method declares it, 9 before 10.
C8_Witness ==
    /\ WalkReturned
    /\ input.resources =
          <<Entry("res", OneMethod(RestMethod("ns.res.get", "", NoResponse,
              << <<Entry("9", Scalar("string")), Entry("10", Required(Scalar("string"))),
                   Entry("b", Scalar("integer"))>> >>)))>>
    /\ input.parameters = <<Entry("10", Scalar("integer")), Entry("key", Scalar("string")),
                            Entry("Alt", Scalar("string")), Entry("alt", Scalar("string"))>>
    /\ input.namespace = "ns"
    /\ writer.text = "        interface ResResource {\n"
                     \o "            get(request?: {\n"
                     \o "                9?: string;\n"
                     \o "                10: string;\n"
                     \o "                alt?: string;\n"
                     \o "                Alt?: string;\n"
                     \o "                b?: number;\n"
                     \o "                key?: string;\n"
                     \o "            }): Request<void>;\n"
                     \o "        }\n"

\* The properties for child resources that end the interfaces written for a
\* resource.
ChildProperties(log, e) ==
    {x \in UNION {{EntriesUpTo(log, j, {"interface"})[k] :
                      k \in 1..Len(EntriesUpTo(log, j, {"interface"}))} :
                  j \in InterfacesNamed(log, getResourceTypeName(e.key))} :
        IsChildProperty(x, e.val)}

\* C24: every child-resource property written inside a resource interface
\* names an interface written in the same pass.
C24_ChildInterfacesEmitted ==
    WalkReturned =>
        \A i \in 1..Len(ResourcesIn(input.resources)) :
            \A x \in ChildProperties(writer.log, ResourcesIn(input.resources)[i]) :
                InterfacesNamed(writer.log, getResourceTypeName(x.name)) # {}

\* C24, where the child resource has a method of the pass's namespace: its
\* property names an interface written in the pass.
C24_OwnChildInterfacesEmitted ==
    WalkReturned =>
        \A i \in 1..Len(ResourcesIn(input.resources)) :
            LET e == ResourcesIn(input.resources)[i]
            IN  \A c \in 1..Len(childResourcesOf(e.val)) :
                    LET child == childResourcesOf(e.val)[c]
                    IN  (/\ InterfacesNamed(writer.log, getResourceTypeName(e.key)) # {}
                         /\ Len(OwnMethods(child.val, input.namespace)) > 0)
                        => /\ \E x \in ChildProperties(writer.log, e) :
                                 x.name = child.key
                           /\ InterfacesNamed(writer.log,
                                              getResourceTypeName(child.key)) # {}

\* C24: in the pass of ns the only method of the child resource is of ns2,
\* so ChildResource is skipped, and ResResource has a property of that type.
C24_PropertyOfSkippedChild ==
    /\ WalkReturned
    /\ input.resources =
          <<Entry("res", RestResource(
              << <<Entry("get", PlainMethod("ns.res.get"))>> >>,
              << <<Entry("child", OneMethod(BodyMethod("ns2.res.child.get")))>> >>))>>
    /\ input.parameters = <<>>
    /\ input.namespace = "ns"
    /\ InterfacesNamed(writer.log, "ChildResource") = {}
    /\ writer.text = "        interface ResResource {\n"
                     \o "            get(request?: {\n"
                     \o "            }): Request<void>;\n"
                     \o "            child: ChildResource;\n"
                     \o "        }\n"

(***************************************************************************)
(* The stub generator (app.ts:933-1060) as a machine with an explicit call *)
(* stack.  A frame is a call about to run its body, or what is left of a   *)
(* caller's body once its callee returns; the first frame is the running   *)
(* one.  An exception unwinds every frame at once: no caller catches it    *)
(* and none has a finally.  The engine's call stack is exhausted only by   *)
(* calls that cannot return: writeObject and writePropertyValue handing    *)
(* each other the same node; MaxStack frames stand for the engine's stack  *)
(* in that recursion, and no other call is refused for the depth it is at. *)
(***************************************************************************)
Frame(op, node, name, record, index) ==
    [op |-> op, node |-> node, name |-> name, record |-> record, index |-> index,
     ancestors |-> "", namespace |-> ""]
CallWith(op, node) == Frame(op, <<node>>, "", <<>>, 0)
CallSchemaRef(name) == Frame("writeSchemaRef", <<>>, name, <<>>, 0)
CallProperties(record, index) == Frame("writeProperties", <<>>, "", record, index)
ScopeEnd(endTag) == Frame("scopeEnd", <<>>, endTag, <<>>, 0)
DeleteSeenRef(name) == Frame("seenSchemaRefs.delete", <<>>, name, <<>>, 0)
EndLine(record, index) == Frame("endLine", <<>>, "", record, index)
ReturnTo(caller) == Frame("return", <<>>, caller, <<>>, 0)

stackOverflowError == "Maximum call stack size exceeded"
unknownSchemaError(schemaName) ==
    "Attempted to generate stub for unknown schema '" \o schemaName \o "'"
unknownScalarError(type) ==
    "Unknown scalar type " \o (IF type = "" THEN "undefined" ELSE type)

Running(op) == pc = "running" /\ stack # <<>> /\ stack[1].op = op

\* app.ts:952-953, 1015-1016: writeObject passes an object without properties
\* and without additionalProperties to writePropertyValue, which passes a
\* node of type object to writeObject: for such a node neither returns.
callsWithoutBound(frame) ==
    /\ frame.op \in {"writeObject", "writePropertyValue"}
    /\ frame.node[1].type = "object"
    /\ frame.node[1].properties = <<>>
    /\ frame.node[1].additionalProperties = <<>>

\* The running frame gives way to `frames`, the writer having become w.
Continue(w, frames) ==
    /\ writer' = w
    /\ IF /\ Len(stack) - 1 + Len(frames) > MaxStack
          /\ frames # <<>>
          /\ callsWithoutBound(frames[1])
       THEN /\ pc' = "overflow"
            /\ stack' = <<>>
            /\ ret' = Thrown(stackOverflowError)
       ELSE /\ pc' = "running"
            /\ stack' = frames \o Tail(stack)
            /\ ret' = ret

Raise(msg) ==
    /\ pc' = "threw"
    /\ stack' = <<>>
    /\ ret' = Thrown(msg)
    /\ writer' = writer

\* schemaName && this.seenSchemaRefs.has(schemaName)
seenRef(schemaName) == schemaName # "" /\ schemaName \in seenSchemaRefs

additionalPropertiesRef(object) ==
    IF object.additionalProperties = <<>> THEN ""
    ELSE object.additionalProperties[1].ref

\* this.writeSchemaRef(...) when there is a name, this.writePropertyValue(...)
\* otherwise (app.ts:978-982, 1009-1013).
refOrValue(node) ==
    IF node.ref # "" THEN CallSchemaRef(node.ref) ELSE CallWith("writePropertyValue", node)

\* The call writeProperties makes for one property (app.ts:1051-1057).
propertyCall(parameter) ==
    IF parameter.type = "object" THEN CallWith("writeObject", parameter)
    ELSE IF parameter.ref # "" THEN CallSchemaRef(parameter.ref)
    ELSE CallWith("writePropertyValue", parameter)

\* The stub of a scalar (app.ts:938-957), "" for what is no scalar.
scalarStub(type) ==
    CASE type \in {"number", "integer", "any"} -> "42"
      [] type = "boolean" -> "true"
      [] type = "string" -> "\"Test string\""
      [] OTHER -> ""

\* A call of the stub generator from writeResourceTests (app.ts:1087, 1098).
StartStub ==
    /\ pc = "start"
    /\ input.op = "stub"
    /\ pc' = "running"
    /\ stack' = <<input.call>>
    /\ UNCHANGED <<input, disk, requests, ret, writer, seenSchemaRefs>>

\* What checkExists(api.schemas)[schemaName] gives writeObject: the schema,
\* or a member of Object.prototype, which has none of the fields of a schema.
asSchema(got) == IF got.k = "inherited" THEN Malformed ELSE got.val

\* App.writeSchemaRef up to its call of writeObject (app.ts:1021-1040).
WriteSchemaRef ==
    /\ Running("writeSchemaRef")
    /\ IF stack[1].name \in seenSchemaRefs
       THEN Continue(write(writer, "undefined"), <<>>) /\ UNCHANGED seenSchemaRefs
       ELSE IF input.schemas = <<>>
       THEN Raise(checkExistsError) /\ UNCHANGED seenSchemaRefs
       ELSE IF Get(input.schemas[1], stack[1].name) = <<>>
       THEN Raise(unknownSchemaError(stack[1].name)) /\ UNCHANGED seenSchemaRefs
       ELSE /\ seenSchemaRefs' = seenSchemaRefs \cup {stack[1].name}
            /\ Continue(writer,
                        <<CallWith("writeObject",
                                   asSchema(Get(input.schemas[1], stack[1].name)[1])),
                          DeleteSeenRef(stack[1].name)>>)
    /\ UNCHANGED <<input, disk, requests>>

\* this.seenSchemaRefs.delete(schemaName) (app.ts:1041).
DeleteSeen ==
    /\ Running("seenSchemaRefs.delete")
    /\ seenSchemaRefs' = seenSchemaRefs \ {stack[1].name}
    /\ Continue(writer, <<>>)
    /\ UNCHANGED <<input, disk, requests>>

writeObjectFrames(object) ==
    IF object.properties # <<>>
    THEN <<CallProperties(ownProperties(object.properties[1]), 1), ScopeEnd("}")>>
    ELSE IF object.additionalProperties # <<>>
    THEN <<refOrValue(object.additionalProperties[1]), ScopeEnd("}")>>
    ELSE <<CallWith("writePropertyValue", object), ReturnTo("writeObject")>>

writeObjectOpen(w, object) ==
    IF object.properties # <<>> THEN scopeOpen(w, "{")
    ELSE IF object.additionalProperties # <<>> THEN newLine(scopeOpen(w, "{"), "A: ")
    ELSE w

\* App.writeObject up to its first call (app.ts:989-1018).
WriteObject ==
    /\ Running("writeObject")
    /\ IF seenRef(additionalPropertiesRef(stack[1].node[1]))
       THEN Continue(write(writer, "undefined"), <<>>)
       ELSE Continue(writeObjectOpen(writer, stack[1].node[1]),
                     writeObjectFrames(stack[1].node[1]))
    /\ UNCHANGED <<input, disk, requests, seenSchemaRefs>>

\* App.writeArray up to its first call (app.ts:963-987).
WriteArray ==
    /\ Running("writeArray")
    /\ IF seenRef(stack[1].node[1].ref)
       THEN Continue(write(writer, "undefined"), <<>>)
       ELSE Continue(newLine(scopeOpen(writer, "["), ""),
                     <<refOrValue(stack[1].node[1]), ScopeEnd("]")>>)
    /\ UNCHANGED <<input, disk, requests, seenSchemaRefs>>

\* App.writePropertyValue (app.ts:933-961).
WritePropertyValue ==
    /\ Running("writePropertyValue")
    /\ IF scalarStub(stack[1].node[1].type) # ""
       THEN Continue(write(writer, scalarStub(stack[1].node[1].type)), <<>>)
       ELSE IF stack[1].node[1].type = "array"
       THEN IF stack[1].node[1].items = <<>>
            THEN Raise(checkExistsError)
            ELSE Continue(writer, <<CallWith("writeArray", stack[1].node[1].items[1]),
                                    ReturnTo("writePropertyValue")>>)
       ELSE IF stack[1].node[1].type = "object"
       THEN Continue(writer, <<CallWith("writeObject", stack[1].node[1]),
                               ReturnTo("writePropertyValue")>>)
       ELSE Raise(unknownScalarError(stack[1].node[1].type))
    /\ UNCHANGED <<input, disk, requests, seenSchemaRefs>>

\* One round of _.forEach in App.writeProperties, up to the call
\* (app.ts:1049-1057).
WriteProperties ==
    /\ Running("writeProperties")
    /\ IF stack[1].index > Len(stack[1].record)
       THEN Continue(writer, <<>>)
       ELSE Continue(newLine(writer,
                             formatPropertyName(stack[1].record[stack[1].index].key)
                             \o ": "),
                     <<propertyCall(stack[1].record[stack[1].index].val),
                       EndLine(stack[1].record, stack[1].index)>>)
    /\ UNCHANGED <<input, disk, requests, seenSchemaRefs>>

\* scope.endLine(',') and the next round (app.ts:1058).
EndProperty ==
    /\ Running("endLine")
    /\ Continue(endLine(writer, ","),
                <<CallProperties(stack[1].record, stack[1].index + 1)>>)
    /\ UNCHANGED <<input, disk, requests, seenSchemaRefs>>

\* The closing half of TypescriptTextWriter.scope (app.ts:213-215).
CloseScope ==
    /\ Running("scopeEnd")
    /\ Continue(scopeClose(writer, stack[1].name), <<>>)
    /\ UNCHANGED <<input, disk, requests, seenSchemaRefs>>

\* A callee returned to a caller that has nothing left to do.
Return ==
    /\ Running("return")
    /\ Continue(writer, <<>>)
    /\ UNCHANGED <<input, disk, requests, seenSchemaRefs>>

\* The call started by StartStub returned.
Finish ==
    /\ pc = "running"
    /\ stack = <<>>
    /\ pc' = "returned"
    /\ UNCHANGED <<input, disk, requests, ret, writer, seenSchemaRefs, stack>>

(***************************************************************************)
(* Registries and calls for the stub generator.                            *)
(***************************************************************************)
StubShapesA ==
    {ObjectOf(<<Entry("self", Ref("A"))>>),
     ObjectOf(<<Entry("a", Scalar("string")), Entry("next", Ref("B"))>>),
     ObjectOf(<<Entry("list", ArrayOf(Ref("A")))>>),
     ObjectOf(<<Entry("grid", ArrayOf(ArrayOf(Ref("B"))))>>),
     ObjectOf(<<Entry("inner", ObjectOf(<<Entry("back", Ref("A"))>>))>>),
     ObjectOf(<<Entry("map", MapOf(Ref("A"))), Entry("n", Scalar("integer"))>>),
     ObjectOf(<<Entry("e", BareObject), Entry("self", Ref("A"))>>),
     ObjectOf(<<Entry("self", Ref("A")), Entry("e", BareObject)>>),
     ObjectOf(<<Entry("f", Scalar("float"))>>),
     ObjectOf(<<Entry("l", ArrayNoItems)>>),
     ObjectWithMap(<<Entry("b", Scalar("boolean"))>>, Ref("A")),
     MapOf(Ref("A")),
     MapOf(Ref("B")),
     MapOf(Scalar("any")),
     ArrayOf(Ref("A")),
     Scalar("string"),
     Ref("B"),
     BareObject}
StubShapesB ==
    {ObjectOf(<<Entry("back", Ref("A"))>>),
     ObjectOf(<<Entry("s", Scalar("number")), Entry("more", ArrayOf(Ref("B")))>>),
     ObjectOf(<<Entry("gone", Ref(AbsentName))>>),
     MapOf(Ref("B")),
     ObjectOf(<<>>)}
StubRegistries ==
    {Registry(<<a>>, b, <<>>) : a \in StubShapesA,
                                b \in {<<>>} \cup {<<n>> : n \in StubShapesB}}
\* api.schemas: absent, or a registry.
StubSchemas == {<<>>} \cup {<<r>> : r \in StubRegistries}
StubCalls ==
    {CallSchemaRef("A"), CallSchemaRef("B"), CallSchemaRef(InheritedName),
     CallProperties(<<Entry("p", Ref("A")), Entry("q-r", Scalar("string"))>>, 1),
     CallProperties(<<Entry("p", ArrayOf(Ref("A"))), Entry("o", MapOf(Ref("B")))>>, 1)}

InitStub ==
    /\ input \in {[op |-> "stub", call |-> c, schemas |-> r] :
                     c \in StubCalls, r \in StubSchemas}
    /\ writer = NewWriter
    /\ Idle

NextStub ==
    \/ StartStub
    \/ WriteSchemaRef
    \/ DeleteSeen
    \/ WriteObject
    \/ WriteArray
    \/ WritePropertyValue
    \/ WriteProperties
    \/ EndProperty
    \/ CloseScope
    \/ Return
    \/ Finish
SpecStub == InitStub /\ [][NextStub]_vars

(***************************************************************************)
(* Claims about the stub generator, checked under SpecStub.                *)
(***************************************************************************)
\* The names a node refers to through properties, items and
\* additionalProperties.
RECURSIVE RefsIn(_)
RefsIn(node) ==
    (IF node.ref # "" THEN {node.ref} ELSE {})
    \cup (IF node.items # <<>> THEN RefsIn(node.items[1]) ELSE {})
    \cup (IF node.additionalProperties # <<>>
          THEN RefsIn(node.additionalProperties[1]) ELSE {})
    \cup (IF node.properties # <<>>
          THEN UNION {RefsIn(node.properties[1][i].val) :
                         i \in 1..Len(node.properties[1])}
          ELSE {})
RefersTo(schemas, from, to) ==
    HasKey(schemas, from) /\ to \in RefsIn(Lookup(schemas, from)[1])
RECURSIVE Reaches(_, _, _, _)
Reaches(schemas, from, to, steps) ==
    /\ steps > 0
    /\ \/ RefersTo(schemas, from, to)
       \/ \E i \in 1..Len(schemas) :
             /\ RefersTo(schemas, from, schemas[i].key)
             /\ Reaches(schemas, schemas[i].key, to, steps - 1)
Cyclic(schemas) ==
    \E i \in 1..Len(schemas) :
        Reaches(schemas, schemas[i].key, schemas[i].key, Len(schemas))
\* The schemas of the document, none when it has no registry.
RegistryOf(api) == IF api.schemas = <<>> THEN <<>> ELSE api.schemas[1]

\* C1: for a registry whose reference graph has a cycle the stub generator
\* terminates by returning or by raising an input error, never by
\* exhausting the call stack.
C1_CyclicRegistryTerminates ==
    (input.op = "stub" /\ Cyclic(RegistryOf(input))) => pc # "overflow"

\* The frame about to run meets a reference to a name of the expansion set.
MeetsSeenRef ==
    /\ pc = "running"
    /\ stack # <<>>
    /\ \/ stack[1].op = "writeSchemaRef" /\ stack[1].name \in seenSchemaRefs
       \/ /\ stack[1].op = "writeArray"
          /\ seenRef(stack[1].node[1].ref)
       \/ /\ stack[1].op = "writeObject"
          /\ seenRef(additionalPropertiesRef(stack[1].node[1]))

\* C1, second half: where a reference to a name of the expansion set is met
\* the generator writes `undefined` and returns without a call.
C1_ReentryWritesUndefined ==
    [][MeetsSeenRef => /\ writer'.text = writer.text \o "undefined"
                       /\ stack' = Tail(stack)
                       /\ seenSchemaRefs' = seenSchemaRefs]_vars

\* C1: the writeObject/writePropertyValue recursion exhausts the stack for
\* a cyclic registry after the cycle itself was cut with `undefined`.
C1_OverflowAfterReentry ==
    /\ input.op = "stub"
    /\ pc = "overflow"
    /\ input.call = CallSchemaRef("A")
    /\ Lookup(RegistryOf(input), "A")
          = <<ObjectOf(<<Entry("self", Ref("A")), Entry("e", BareObject)>>)>>
    /\ writer.text = "{\n    self: undefined,\n    e: "

\* C13: when the stub generator has been left, by return or by an error,
\* the expansion set is what it was before the call: every name that
\* writeSchemaRef added has been removed.
C13_ExpansionSetRestored ==
    (input.op = "stub" /\ pc \in {"returned", "threw"}) => seenSchemaRefs = {}

\* C13, for a call that returns: the expansion set is restored.
C13_ExpansionSetRestoredOnReturn ==
    (input.op = "stub" /\ pc = "returned") => seenSchemaRefs = {}

\* C13: an error raised under writeSchemaRef("A") left A in the set.
C13_NameLeftInSet ==
    /\ input.op = "stub"
    /\ pc = "threw"
    /\ input.call = CallSchemaRef("A")
    /\ Lookup(RegistryOf(input), "A") = <<ObjectOf(<<Entry("f", Scalar("float"))>>)>>
    /\ ret = Thrown("Unknown scalar type float")
    /\ seenSchemaRefs = {"A"}

\* C23: for a registry whose reference graph has no cycle the stub generator
\* returns or raises an input error; writeObject and writePropertyValue do
\* not call each other until the call stack is exhausted.
C23_AcyclicRegistryTerminates ==
    (input.op = "stub" /\ ~Cyclic(RegistryOf(input))) => pc # "overflow"

\* C23: the only schema is an object with neither properties nor
\* additionalProperties; writeSchemaRef("A") exhausted the call stack
\* without having written anything.
C23_BareObjectOverflows ==
    /\ input.op = "stub"
    /\ pc = "overflow"
    /\ input.call = CallSchemaRef("A")
    /\ input.schemas = <<Registry(<<BareObject>>, <<>>, <<>>)>>
    /\ ~Cyclic(RegistryOf(input))
    /\ ret = Thrown(stackOverflowError)
    /\ writer.text = ""
    /\ seenSchemaRefs = {"A"}

(***************************************************************************)
(* utils.getAllNamespaces, which processService calls first                *)
(* (app.ts:887).  A description is [methods, resources] like a resource.   *)
(* The walk takes the methods of a level before its resources, each        *)
(* resource in full before the next, and keeps [names, thrown, error].     *)
(***************************************************************************)
NoNamespaces == [names |-> <<>>, thrown |-> FALSE, error |-> ""]
namespaceError(found, msg) == [found EXCEPT !.thrown = TRUE, !.error = msg]

\* A variant of getNamespace that takes the text before the last dot.
getNamespaceBeforeLastDot(id) == SubSeq(id, 1, LastIndexIn(id, ".") - 1)

\* The first dot-segment of a method id that has a dot.
getNamespace(id) == SubSeq(id, 1, IndexIn(id, ".") - 1)

addNamespace(found, namespace, id) ==
    IF namespace = "" THEN namespaceError(found, "Can't get namespace from " \o id)
    ELSE IF \E i \in 1..Len(found.names) : found.names[i] = namespace THEN found
    ELSE [found EXCEPT !.names = Append(@, namespace)]

methodNamespace(found, methodName, m) ==
    IF m.id = <<>>
    THEN namespaceError(found, "Method " \o methodName \o " has no ID")
    ELSE IF ~HasChar(m.id[1], ".")
    THEN namespaceError(found, "Malformed method ID: " \o m.id[1] \o " (no dots)")
    ELSE addNamespace(found, getNamespace(m.id[1]), m.id[1])

RECURSIVE methodNamespaces(_, _)
methodNamespaces(found, methods) ==
    IF Len(methods) = 0 \/ found.thrown THEN found
    ELSE methodNamespaces(methodNamespace(found, methods[1].key, methods[1].val),
                          Tail(methods))

RECURSIVE resourceNamespaces(_, _)
collectNamespaces(found, description) ==
    resourceNamespaces(methodNamespaces(found, allMethodsOf(description)),
                       childResourcesOf(description))
resourceNamespaces(found, resources) ==
    IF Len(resources) = 0 \/ found.thrown THEN found
    ELSE resourceNamespaces(collectNamespaces(found, resources[1].val), Tail(resources))

getAllNamespaces(restDescription) == collectNamespaces(NoNamespaces, restDescription)

MethodIds == {"a.a", "b.b", "a.b.c", "ab", ".m"}
IdMethods == {PlainMethod(id) : id \in MethodIds} \cup {WithoutId(PlainMethod(""))}
MethodMaps ==
    {<<>>}
    \cup {<< <<Entry("first", m)>> >> : m \in IdMethods}
    \cup {<< <<Entry("first", m1), Entry("second", m2)>> >> : m1 \in IdMethods, m2 \in IdMethods}
ResourceMaps ==
    {<<>>}
    \cup {<< <<Entry("c", OneMethod(m))>> >> : m \in IdMethods}
    \cup {<< <<Entry("c", RestResource(<< <<Entry("d", m1)>> >>,
                                       << <<Entry("e", OneMethod(m2))>> >>))>> >> :
             m1 \in IdMethods, m2 \in IdMethods}
    \cup {<< <<Entry("c", RestResource(<<>>, << <<Entry("e", OneMethod(m1))>> >>)),
              Entry("g", OneMethod(m2))>> >> :
             m1 \in {PlainMethod("b.b"), PlainMethod("a.b.c")},
             m2 \in {PlainMethod("a.a"), PlainMethod("b.b")}}

InitNs ==
    /\ input \in {[op |-> "getAllNamespaces", description |-> RestResource(ms, rs)] :
                     ms \in MethodMaps, rs \in ResourceMaps}
    /\ writer = NewWriter
    /\ Idle

GetAllNamespaces ==
    /\ pc = "start"
    /\ input.op = "getAllNamespaces"
    /\ \E found \in {getAllNamespaces(input.description)} :
          /\ ret' = IF found.thrown THEN Thrown(found.error) ELSE Names(found.names)
          /\ pc' = IF found.thrown THEN "threw" ELSE "returned"
    /\ UNCHANGED <<input, disk, requests, writer, seenSchemaRefs, stack>>

NextNs == GetAllNamespaces
SpecNs == InitNs /\ [][NextNs]_vars

(***************************************************************************)
(* Claims about getAllNamespaces, checked under SpecNs.                    *)
(***************************************************************************)
\* Every method of a description, in the order the walk meets them.
RECURSIVE MethodsOf(_)
RECURSIVE MethodsOfAll(_)
MethodsOf(description) ==
    allMethodsOf(description) \o MethodsOfAll(childResourcesOf(description))
MethodsOfAll(resources) ==
    IF Len(resources) = 0 THEN <<>>
    ELSE MethodsOf(resources[1].val) \o MethodsOfAll(Tail(resources))
FirstSegment(id) ==
    SubSeq(id, 1, (CHOOSE i \in 1..Len(id) :
                      /\ CharAt(id, i) = "."
                      /\ \A j \in 1..(i - 1) : CharAt(id, j) # ".") - 1)
HasNoNamespace(m) ==
    \/ m.id = <<>>
    \/ ~HasChar(m.id[1], ".")
    \/ CharAt(m.id[1], 1) = "."
NamespaceErrorOf(e) ==
    IF e.val.id = <<>> THEN "Method " \o e.key \o " has no ID"
    ELSE IF ~HasChar(e.val.id[1], ".")
    THEN "Malformed method ID: " \o e.val.id[1] \o " (no dots)"
    ELSE "Can't get namespace from " \o e.val.id[1]

\* C10: getAllNamespaces returns every namespace (first dot-segment of a
\* method id) of the top-level methods and of the resources at any depth
\* exactly once, in the order they are first met, and raises an error when a
\* method has no id, an id without a dot, or an id that starts with a dot.
C10_Namespaces ==
    (input.op = "getAllNamespaces" /\ pc # "start") =>
        LET ms == MethodsOf(input.description)
            broken == {i \in 1..Len(ms) : HasNoNamespace(ms[i].val)}
            FirstMet(n) == CHOOSE i \in 1..Len(ms) :
                               /\ FirstSegment(ms[i].val.id[1]) = n
                               /\ \A j \in 1..(i - 1) : FirstSegment(ms[j].val.id[1]) # n
        IN  IF broken # {}
            THEN /\ pc = "threw"
                 /\ ret = Thrown(NamespaceErrorOf(
                              ms[CHOOSE i \in broken : \A j \in broken : i <= j]))
            ELSE /\ pc = "returned"
                 /\ {ret.names[i] : i \in 1..Len(ret.names)}
                       = {FirstSegment(ms[i].val.id[1]) : i \in 1..Len(ms)}
                 /\ \A i, j \in 1..Len(ret.names) :
                       i < j => /\ ret.names[i] # ret.names[j]
                                /\ FirstMet(ret.names[i]) < FirstMet(ret.names[j])

C10_Witness ==
    /\ input.op = "getAllNamespaces"
    /\ pc = "returned"
    /\ input.description =
          RestResource(<< <<Entry("first", PlainMethod("b.b")),
                            Entry("second", PlainMethod("a.b.c"))>> >>,
                       << <<Entry("c", RestResource(
                                << <<Entry("d", PlainMethod("a.a"))>> >>,
                                << <<Entry("e", OneMethod(PlainMethod("b.b")))>> >>))>> >>)
    /\ ret = Names(<<"b", "a">>)

(***************************************************************************)
(* TypescriptTextWriter.comment applied to a text at an indent depth.      *)
(***************************************************************************)
MaxCommentIndent == 14

\* Texts of ASCII characters: words, spaces, tabs, line ends, the sequences
\* the comment defuses, and words as long as or longer than a budget.
AsciiTexts ==
    {"", "  ", "\t\n", "short", "two words", "a few more words in a row",
     "averyveryverylongwordindeed", "see https://example.com/a/very/long/url there",
     "https://example.com/a/very/long/url", "ab*/cd", "end */ here", "abc*/",
     "@type x", "@typedef x", "@class", "x @this", "the @property of @this",
     "@types", "@param x", "twelve chars", "abcde fghij",
     "abcdef", "abcde", "x abcdef", "abcdef x", "one\ntwo", "first line\nsecond line",
     "first\n\nthird", "abcdefghijklm\nb", " padded ", "a  b",
     "abcde\t x", "x \tabcde", "abcde\r x", "abcdef\t x", "ab\tcd",
     "fifty-three characters fit in one line at indent zero",
     "fifty-three characters fit in one line at indent zero\r\nx",
     "one\r\ntwo\rthree", "a\fb", "\fabc", "abc\f", "\f",
     "this line of fifty-four characters is over the budget.",
     "sixty-characters-in-a-single-word-which-nothing-can-break-up"}

\* Texts with code units above U+007F: white space that trim strips,
\* irregular spaces that it does not, at the ends of a text and of a word
\* and inside a word.
SpacedTexts ==
    {<<"U+000B">>, <<"U+0085">>, <<"U+200B">>, <<"U+180E">>,
     <<"U+2003", "U+3000">>, <<"U+FEFF", " ", "U+2028">>,
     <<"a", "U+000B", "b">>, <<"U+000B", "a", "b", "c">>,
     <<"a", "b", "c", "U+00A0">>, <<"a", "U+0085", "b">>,
     <<"U+0085", "a", "b", "c">>,
     <<"U+1680">> \o codeUnits("abcde") \o <<"U+FEFF">>,
     codeUnits("abcde") \o <<"U+1680", " ", "x">>,
     codeUnits("abcde") \o <<"U+200B", " ", "x">>,
     codeUnits("abcde") \o <<"U+0085", " ", "x">>,
     codeUnits("x ") \o <<"U+180E">> \o codeUnits("abcde"),
     codeUnits("x ") \o <<"U+202F">> \o codeUnits("abcde"),
     codeUnits("ab") \o <<"U+2009">> \o codeUnits("cd ef"),
     codeUnits("one") \o <<"U+2028">> \o codeUnits("two"),
     codeUnits("one") \o <<"U+2029", NL>> \o codeUnits("two"),
     <<"a">> \o irregularSpaces \o <<"b">>,
     <<"U+205F">> \o codeUnits("a*/b @type") \o <<"U+2000">>}

CommentTexts == {codeUnits(t) : t \in AsciiTexts} \cup SpacedTexts

InitComment ==
    /\ input \in {[op |-> "comment", text |-> t, indent |-> d] :
                     t \in CommentTexts, d \in 0..MaxCommentIndent}
    /\ ret = NoResult
    /\ writer = [NewWriter EXCEPT !.indent = input.indent]
    /\ seenSchemaRefs = {}
    /\ stack = <<>>
    /\ disk = NoFiles
    /\ requests = <<>>
    /\ pc = "start"

Comment ==
    /\ pc = "start"
    /\ input.op = "comment"
    /\ writer' = comment(writer, input.text)
    /\ pc' = "returned"
    /\ UNCHANGED <<input, disk, requests, ret, seenSchemaRefs, stack>>

NextComment == Comment
SpecComment == InitComment /\ [][NextComment]_vars

(***************************************************************************)
(* Claims about comment, checked under SpecComment.                        *)
(***************************************************************************)
\* The words of a text: what stands between its spaces and its line ends.
WordsOfLines(textLines) ==
    UNION {{splitWords(textLines[i])[j] : j \in 1..Len(splitWords(textLines[i]))} :
              i \in 1..Len(textLines)}
WordsOf(text) == WordsOfLines(splitLines(trim(text)))
\* A word as it is written: without the white space at its ends.
Written(word) == trim(word)
\* A word as a comment line shows it, every irregular space a space.
Shown(word) == toText(replaceIrregularSpaces(<<trim(word)>>, irregularSpaces)[1])
\* So many code units do not fit between the comment delimiters at the indent.
OverBudget(n, indent) ==
    n + indent * Len(tabString) + Len("/**  */") > maxLineLength
DisableMarker == "// tslint:disable:max-line-length" \o NL
EnableMarker == "// tslint:enable:max-line-length" \o NL
CommentWritten == input.op = "comment" /\ pc = "returned" /\ Len(trim(input.text)) > 0

\* The marker pair stands around the comment exactly when one of the words
\* is long; a long word stands on a line of its own.
MarkersFor(long) ==
    LET pad == Repeat(tabString, input.indent)
    IN  /\ long # {} =>
              /\ startsWith(writer.text, pad \o DisableMarker \o pad \o "/**")
              /\ includes(writer.text, "*/" \o NL \o pad \o EnableMarker)
              /\ Len(SelectSeq(writer.log, LAMBDA e : e.markers)) = 1
        /\ \A x \in long : includes(writer.text, NL \o pad \o " * " \o Shown(x) \o NL)
        /\ long = {} =>
              /\ ~includes(writer.text, "max-line-length")
              /\ startsWith(writer.text, pad \o "/**")
              /\ \A i \in 1..Len(writer.log) : ~writer.log[i].markers

\* C11, as stated: comment puts the max-line-length disable/enable markers
\* around the comment exactly when some space-separated word of the text is
\* longer than the width budget (maxLineLength less the indent width and the
\* delimiters); such a word stands unbroken on a line of its own, and
\* without such a word there is no marker.
C11_MarkersForLongWords ==
    CommentWritten =>
        MarkersFor({x \in WordsOf(input.text) :
                       Len(x) > 0 /\ OverBudget(Len(x), input.indent)})

\* C11, amended: the word is measured as it is written, that is after `*/`
\* and the tags @class, @this, @type, @typedef and @property have each
\* gained the joiner, and without the white space at its ends.  The markers
\* stand around the comment exactly when some word so measured is longer
\* than the width budget; the word stands unbroken on a line of its own.
C11_MarkersForLongWrittenWords ==
    CommentWritten =>
        MarkersFor({x \in WordsOf(escapeComment(input.text)) :
                       Len(x) > 0 /\ OverBudget(Len(Written(x)), input.indent)})

C11_Witness ==
    /\ CommentWritten
    /\ input.text = codeUnits("see https://example.com/a/very/long/url there")
    /\ input.indent = 5
    /\ writer.text = "                    // tslint:disable:max-line-length\n"
                     \o "                    /**\n"
                     \o "                     * see\n"
                     \o "                     * https://example.com/a/very/long/url\n"
                     \o "                     * there\n"
                     \o "                     */\n"
                     \o "                    // tslint:enable:max-line-length\n"

\* C11: a tag of five characters at a budget of five is written with the
\* joiner, as six, and gets the markers.
C11_DefusedTagOverBudget ==
    /\ CommentWritten
    /\ input.text = codeUnits("@type x")
    /\ input.indent = 12
    /\ writer.log[1].markers
    /\ writer.log[1].lines = <<<<>>, codeUnits("@^type"), <<"x">>>>

\* C11: a word of six code units whose last is a tab is written as five at
\* a budget of five, and gets no marker.
C11_TrimmedWordWithinBudget ==
    /\ CommentWritten
    /\ input.text = codeUnits("abcde\t x")
    /\ input.indent = 12
    /\ ~writer.log[1].markers
    /\ writer.text = Repeat(tabString, 12) \o "/**" \o NL
                     \o Repeat(tabString, 12) \o " *" \o NL
                     \o Repeat(tabString, 12) \o " * abcde" \o NL
                     \o Repeat(tabString, 12) \o " * x" \o NL
                     \o Repeat(tabString, 12) \o " */" \o NL

\* Greedy packing: a word opens a new line when it does not fit on the
\* current one, after a space if that line has words already, and only then.
RECURSIVE GreedyPack(_, _, _, _)
GreedyPack(words, lines, curLine, budget) ==
    IF Len(words) = 0 THEN Append(lines, curLine)
    ELSE IF Exceeds(Len(curLine) + (IF curLine = <<>> THEN 0 ELSE Len(" "))
                    + Len(words[1]), budget)
    THEN GreedyPack(Tail(words), Append(lines, curLine), words[1], budget)
    ELSE IF curLine = <<>>
    THEN GreedyPack(Tail(words), lines, words[1], budget)
    ELSE GreedyPack(Tail(words), lines, curLine \o <<" ">> \o words[1], budget)

RECURSIVE GreedyLines(_, _)
GreedyLines(textLines, budget) ==
    IF Len(textLines) = 0 THEN <<>>
    ELSE (IF Exceeds(Len(textLines[1]), budget)
          THEN GreedyPack(splitWords(textLines[1]), <<>>, <<>>, budget)
          ELSE <<textLines[1]>>)
         \o GreedyLines(Tail(textLines), budget)

\* The words of the lines, each without the white space at its ends.
RECURSIVE NonEmptyWords(_)
NonEmptyWords(lines) ==
    IF Len(lines) = 0 THEN <<>>
    ELSE SelectSeq(trimAll(splitWords(lines[1])), LAMBDA x : Len(x) > 0)
         \o NonEmptyWords(Tail(lines))

\* C21: the lines of the comment are the greedy packing of the words of
\* each over-long text line: no word split, the words in their order, and
\* a line break before a word only where the word does not fit on the
\* current line.
C21_GreedyWrap ==
    CommentWritten =>
        writer.log[1].lines
            = replaceIrregularSpaces(
                  trimAll(GreedyLines(splitLines(trim(escapeComment(input.text))),
                                      commentBudget(writer))),
                  irregularSpaces)

\* C21, for the words alone: the lines of the comment hold the words of the
\* text, whole and in their order.
C21_WordsKeptInOrder ==
    CommentWritten =>
        NonEmptyWords(writer.log[1].lines)
            = NonEmptyWords(replaceIrregularSpaces(
                                splitLines(trim(escapeComment(input.text))),
                                irregularSpaces))

\* C21: a first word that fills the budget exactly stands after an empty line.
C21_EmptyLineBeforeFittingWord ==
    /\ CommentWritten
    /\ input.text = codeUnits("abcde fghij")
    /\ input.indent = 12
    /\ writer.log[1].lines = <<<<>>, codeUnits("abcde"), codeUnits("fghij")>>
    /\ writer.text = Repeat(tabString, 12) \o "/**" \o NL
                     \o Repeat(tabString, 12) \o " *" \o NL
                     \o Repeat(tabString, 12) \o " * abcde" \o NL
                     \o Repeat(tabString, 12) \o " * fghij" \o NL
                     \o Repeat(tabString, 12) \o " */" \o NL

(***************************************************************************)
(* The block operations of TypescriptTextWriter applied to a body          *)
(* callback: braces (app.ts:141-150), anonymousType (app.ts:192-198) and   *)
(* scope (app.ts:209-216).                                                 *)
(***************************************************************************)
braces(w, text, context, schemas) ==
    bracesClose(invoke(context, bracesOpen(w, text), schemas))
anonymousType(w, context, schemas) ==
    anonymousTypeClose(invoke(context, anonymousTypeOpen(w), schemas))
scope(w, context, startTag, endTag, schemas) ==
    scopeClose(invoke(context, scopeOpen(w, startTag), schemas), endTag)

MaxBlockIndent == 3

BlockKinds == {"braces", "anonymousType", "scope"}
BodyNodes ==
    {ObjectOf(<<>>),
     ObjectOf(PropA(Scalar("string"))),
     ObjectOf(PropAB(Scalar("integer"), ObjectOf(PropA(Ref("A"))))),
     ObjectOf(PropA(Malformed)),
     ObjectOf(PropAB(Scalar("string"), Malformed)),
     ObjectOf(PropA(ObjectOf(PropA(Malformed)))),
     ObjectOf(PropA(ArrayNoItems)),
     ObjectOf(PropA(Ref(AbsentName))),
     MapOf(Scalar("string")),
     MapOf(Malformed),
     ArrayOf(ObjectOf(PropA(Scalar("boolean")))),
     ArrayOf(MapOf(Malformed))}
BlockBodies ==
    {getType(n, <<>>) : n \in BodyNodes}
    \cup {createRequestParameterWriterCallback(p, r) :
             p \in {<<>>, PropA(Scalar("string")), PropA(Malformed)}, r \in {"", "A"}}
BlockRegistries == {<<>>, Registry(<<ObjectOf(PropA(Scalar("string")))>>, <<>>, <<>>)}

InitBlock ==
    /\ input \in {[op |-> "block", block |-> k, context |-> c, indent |-> d,
                   schemas |-> r] :
                     k \in BlockKinds, c \in BlockBodies, d \in 0..MaxBlockIndent,
                     r \in BlockRegistries}
    /\ ret = NoResult
    /\ writer = [NewWriter EXCEPT !.indent = input.indent]
    /\ seenSchemaRefs = {}
    /\ stack = <<>>
    /\ disk = NoFiles
    /\ requests = <<>>
    /\ pc = "start"

Braces ==
    /\ pc = "start"
    /\ input.op = "block"
    /\ input.block = "braces"
    /\ writer' = braces(writer, "namespace ns", input.context, input.schemas)
    /\ pc' = IF writer'.thrown THEN "threw" ELSE "returned"
    /\ UNCHANGED <<input, disk, requests, ret, seenSchemaRefs, stack>>

AnonymousType ==
    /\ pc = "start"
    /\ input.op = "block"
    /\ input.block = "anonymousType"
    /\ writer' = anonymousType(writer, input.context, input.schemas)
    /\ pc' = IF writer'.thrown THEN "threw" ELSE "returned"
    /\ UNCHANGED <<input, disk, requests, ret, seenSchemaRefs, stack>>

Scope ==
    /\ pc = "start"
    /\ input.op = "block"
    /\ input.block = "scope"
    /\ writer' = scope(writer, input.context, "{", "}", input.schemas)
    /\ pc' = IF writer'.thrown THEN "threw" ELSE "returned"
    /\ UNCHANGED <<input, disk, requests, ret, seenSchemaRefs, stack>>

NextBlock == Braces \/ AnonymousType \/ Scope
SpecBlock == InitBlock /\ [][NextBlock]_vars

(***************************************************************************)
(* Claims about the block operations, checked under SpecBlock.             *)
(***************************************************************************)
\* C12: after braces, anonymousType or scope the indent depth is what it
\* was before the operation, also when the body callback raised.
C12_IndentRestored ==
    (input.op = "block" /\ pc \in {"returned", "threw"})
        => writer.indent = input.indent

\* C12, for a body that returns: the indent depth is restored.
C12_IndentRestoredOnReturn ==
    (input.op = "block" /\ pc = "returned") => writer.indent = input.indent

\* C12: a body that raised left the indent one level deeper after
\* anonymousType.
C12_IndentLeftDeeper ==
    /\ input.op = "block"
    /\ input.block = "anonymousType"
    /\ pc = "threw"
    /\ input.context = createRequestParameterWriterCallback(PropA(Malformed), "")
    /\ input.indent = 0
    /\ writer.indent = 2
    /\ writer.text = "{\n{\n"

(***************************************************************************)
(* processApi, app.ts:768-819: the block of one namespace, which holds an  *)
(* interface per schema, the resource interfaces and a constant per        *)
(* top-level resource written.                                             *)
(***************************************************************************)
propertiesOf(schema) == IF schema.properties = <<>> THEN <<>> ELSE schema.properties[1]

\* app.ts:772-798: _.forEach(schemas, schema => writer.interface(...))
RECURSIVE forEachSchema(_, _, _)
forEachSchema(w, rest, schemas) ==
    IF Len(rest) = 0 \/ w.thrown THEN w
    ELSE IF rest[1].val.id = <<>> THEN Throw(w, checkExistsError)
    ELSE forEachSchema(
             interfaceClose(
                 indexSignature(
                     writeSchemaProperties(
                         interfaceOpen(w, rest[1].val.id[1], isEmptySchema(rest[1].val)),
                         ownProperties(propertiesOf(rest[1].val)), schemas),
                     rest[1].val, schemas)),
             Tail(rest), schemas)

\* app.ts:770-798: restDescription.schemas is the registry of the document,
\* if it has one.
writeSchemaInterfaces(w, schemas) ==
    IF schemas = <<>> THEN Throw(w, checkExistsError)
    ELSE forEachSchema(w, ownProperties(schemas[1]), schemas[1])

constLine(resourceName) ==
    "const " \o resourceName \o ": " \o getResourceTypeName(resourceName) \o ";"

\* A variant of declareResource that does not set the reserved name aside.
declareAnyResource(w, resourceName) ==
    writeLine(endLine(w, ""), constLine(resourceName))

\* app.ts:809-816
declareResource(w, resourceName) ==
    IF resourceName # "debugger"
    THEN writeLine(endLine(w, ""), constLine(resourceName))
    ELSE w

RECURSIVE declareResources(_, _)
declareResources(w, writtenResources) ==
    IF Len(writtenResources) = 0 THEN w
    ELSE declareResources(declareResource(w, writtenResources[1]),
                          Tail(writtenResources))

\* app.ts:800-817: writeResources returns _.uniq(names).sort().
declareWritten(st) == declareResources(st.w, sortNames(uniq(st.written)))

\* app.ts:769-818: writer.namespace(namespace, () => {...})
writeNamespace(w, namespace, resources, parameters, schemas) ==
    IF schemas = <<>>
    THEN writeSchemaInterfaces(bracesOpen(w, "namespace " \o namespace), schemas)
    ELSE bracesClose(
             declareWritten(
                 writeResources(
                     writeSchemaInterfaces(bracesOpen(w, "namespace " \o namespace),
                                           schemas),
                     resources, parameters, schemas[1], namespace)))

DeclareNamespaceWriter == indentInc(NewWriter)

\* The registry with each schema carrying its key as its id, as the
\* discovery documents have it.
IdentifiedByKey(schemas) ==
    [i \in 1..Len(schemas) |-> Entry(schemas[i].key, Identified(schemas[i].val, schemas[i].key))]
\* restDescription.schemas for the namespace block: absent, or a registry
\* identified by key, with an id that is not the key, or with a schema that
\* has no id.
ApiSchemas ==
    {<<>>}
    \cup {<<IdentifiedByKey(r)>> : r \in ResourceSchemas}
    \cup {<<Registry(<<Identified(ObjectOf(PropA(Scalar("string"))), "Other")>>, <<>>, <<>>)>>,
          <<Registry(<<ObjectOf(PropA(Scalar("string")))>>, <<>>, <<>>)>>,
          <<Registry(<<Identified(ObjectOf(PropA(Scalar("string"))), "A")>>,
                     <<MapOf(Scalar("string"))>>, <<>>)>>}

InitApi ==
    /\ input \in {[op |-> "namespace", resources |-> t, parameters |-> p,
                   schemas |-> r, namespace |-> n] :
                     t \in ResourceTrees, p \in ApiParameters,
                     r \in ApiSchemas, n \in Namespaces}
    /\ ret = NoResult
    /\ writer = DeclareNamespaceWriter
    /\ seenSchemaRefs = {}
    /\ stack = <<>>
    /\ disk = NoFiles
    /\ requests = <<>>
    /\ pc = "start"

WriteNamespace ==
    /\ pc = "start"
    /\ input.op = "namespace"
    /\ \E w \in {writeNamespace(writer, input.namespace, input.resources,
                                input.parameters, input.schemas)} :
          /\ writer' = w
          /\ pc' = IF w.thrown THEN "threw" ELSE "returned"
    /\ UNCHANGED <<input, disk, requests, ret, seenSchemaRefs, stack>>

NextApi == WriteNamespace
SpecApi == InitApi /\ [][NextApi]_vars

(***************************************************************************)
(* Claims about the namespace block, checked under SpecApi.                *)
(***************************************************************************)
\* The top-level resource names whose interface the block holds.
WrittenTopLevel(resources, log) ==
    {resources[i].key : i \in {j \in 1..Len(resources) :
        InterfacesNamed(log, getResourceTypeName(resources[j].key)) # {}}}

\* The lexicographic order of the UTF-16 code units: a is a proper prefix of
\* b, or has the lower code unit at the first place where they differ.
LexicographicallyBefore(a, b) ==
    \E i \in 1..(Len(a) + 1) :
        /\ i <= Len(b)
        /\ SubSeq(a, 1, i - 1) = SubSeq(b, 1, i - 1)
        /\ \/ i = Len(a) + 1
           \/ IndexIn(CodeUnits, CharAt(a, i)) < IndexIn(CodeUnits, CharAt(b, i))
\* The names of a set each once, a name at the place after those before it.
InLexicographicOrder(names) ==
    [i \in 1..Cardinality(names) |->
        CHOOSE n \in names :
            Cardinality({m \in names : LexicographicallyBefore(m, n)}) = i - 1]

RECURSIVE ConstLines(_)
ConstLines(names) ==
    IF Len(names) = 0 THEN ""
    ELSE NL \o Repeat(tabString, 2) \o constLine(names[1]) \o NL
         \o ConstLines(Tail(names))

\* The text of the block up to the end of the last interface.
InterfacesText ==
    writeResources(
        writeSchemaInterfaces(bracesOpen(DeclareNamespaceWriter,
                                         "namespace " \o input.namespace),
                              input.schemas),
        input.resources, input.parameters, input.schemas[1], input.namespace).w.text

\* C18: after the interfaces, the namespace block holds one constant for
\* every top-level resource whose interface it holds, the reserved name
\* debugger left out, each once and in the order of the names, and nothing
\* else before its closing brace; a nested resource has no constant.
C18_ConstDeclarations ==
    (input.op = "namespace" /\ pc = "returned") =>
        LET expected == InLexicographicOrder(
                            WrittenTopLevel(input.resources, writer.log) \ {"debugger"})
        IN  /\ writer.text = InterfacesText \o ConstLines(expected)
                                 \o tabString \o "}" \o NL
            /\ \A i \in 1..Len(expected) : \A j \in 1..Len(expected) :
                  i < j => /\ expected[i] # expected[j]
                           /\ LexicographicallyBefore(expected[i], expected[j])

\* C18: a block whose interfaces are written for 9, 10, b, ~ and a in that
\* order, and under them for the child of b, which declares the five
\* top-level names in the order of their code units.
C18_Witness ==
    /\ input.op = "namespace"
    /\ pc = "returned"
    /\ input.namespace = "ns"
    /\ Keys(input.resources) = <<"9", "10", "b", "~", "a">>
    /\ \A n \in {"9Resource", "10Resource", "BResource", "~Resource", "AResource",
                  "ChildResource"} : InterfacesNamed(writer.log, n) # {}
    /\ \E body \in {InterfacesText} :
          writer.text = body \o NL \o Repeat(tabString, 2)
                            \o "const 10: 10Resource;" \o NL
                            \o NL \o Repeat(tabString, 2)
                            \o "const 9: 9Resource;" \o NL
                            \o NL \o Repeat(tabString, 2)
                            \o "const a: AResource;" \o NL
                            \o NL \o Repeat(tabString, 2)
                            \o "const b: BResource;" \o NL
                            \o NL \o Repeat(tabString, 2)
                            \o "const ~: ~Resource;" \o NL
                            \o tabString \o "}" \o NL

\* C18: a block whose debugger interface is written, which declares my-res
\* alone.
C18_ReservedNameLeftOut ==
    /\ input.op = "namespace"
    /\ pc = "returned"
    /\ input.namespace = "ns"
    /\ InterfacesNamed(writer.log, "DebuggerResource") # {}
    /\ InterfacesNamed(writer.log, "MyResResource") # {}
    /\ \E body \in {InterfacesText} :
          writer.text = body \o NL \o Repeat(tabString, 2)
                            \o "const my-res: MyResResource;" \o NL
                            \o tabString \o "}" \o NL

\* C18: a block with a nested interface, which declares the top-level one alone.
C18_NestedNotDeclared ==
    /\ input.op = "namespace"
    /\ pc = "returned"
    /\ InterfacesNamed(writer.log, "ChildResource") # {}
    /\ \E body \in {InterfacesText} :
          writer.text = body \o NL \o Repeat(tabString, 2)
                            \o "const res: ResResource;" \o NL
                            \o tabString \o "}" \o NL

(***************************************************************************)
(* writeTests and writeResourceTests (app.ts:1062-1216), which call the    *)
(* stub generator: they run on the same call stack.  The writer's log      *)
(* keeps the scope.newLine call that opens each call-site stub.            *)
(***************************************************************************)
\* this.writeResourceTests(scope, api, ancestors, resourceName, resource,
\* namespace), at the round of its method number index.
CallResourceTests(ancestors, resourceName, resource, namespace, index) ==
    [Frame("writeResourceTests", <<resource>>, resourceName, <<>>, index)
       EXCEPT !.ancestors = ancestors, !.namespace = namespace]
ScopeWrite(chunk) == Frame("write", <<>>, chunk, <<>>, 0)
ScopeEndLine(chunk) == Frame("scope.endLine", <<>>, chunk, <<>>, 0)

\* _.forEach(resources, (resource, resourceName) =>
\*     this.writeResourceTests(scope, api, ancestors, resourceName, resource, namespace))
resourceTestCalls(resources, ancestors, namespace) ==
    [i \in 1..Len(resources) |->
        CallResourceTests(ancestors, resources[i].key, resources[i].val, namespace, 1)]

\* app.ts:1197-1208
RECURSIVE namespaceTestCalls(_, _)
namespaceTestCalls(namespaces, resources) ==
    IF Len(namespaces) = 0 THEN <<>>
    ELSE resourceTestCalls(ownProperties(resources), "gapi.client." \o namespaces[1],
                           namespaces[1])
         \o namespaceTestCalls(Tail(namespaces), resources)

\* checkExists(method.id).replace(/^gapi\.client\./, '').startsWith(namespace)
withoutClientPrefix(id) ==
    IF startsWith(id, "gapi.client.") THEN SubSeq(id, Len("gapi.client.") + 1, Len(id))
    ELSE id
stubWanted(id, namespace) == startsWith(withoutClientPrefix(id), namespace)

clientNames(namespaces) ==
    Join([i \in 1..Len(namespaces) |-> "gapi.client." \o namespaces[i]], ", ")

\* utils.getPackageName and constants.revisionPrefix.
getPackageName(api) == "gapi.client." \o api.name \o "-" \o api.version
revisionPrefix == "// Revision: "

\* F applied to the writer that the statements before it leave.
after(w, F(_)) == CHOOSE next \in {F(v) : v \in {w}} : TRUE

\* app.ts:1133-1139 with writeGeneratedDisclaimer (app.ts:42-49): the lines
\* before gapi.load.  A document without a revision gives the text
\* `undefined`.
testsHeader(w, api) ==
    writeLine(
        writeLine(
            writeLine(
                writeLine(
                    writeLine(
                        writeLine(
                            writeLine(w, "/* This is stub file for " \o getPackageName(api)
                                         \o " definition tests */"),
                            "// IMPORTANT"),
                        "// This file was generated by https://github.com/Maxim-Mazurok/google-api-typings-generator. Please do not edit it manually."),
                    "// In case of any problems please post issue to https://github.com/Maxim-Mazurok/google-api-typings-generator"),
                ""),
            revisionPrefix \o (IF api.revision = <<>> THEN "undefined"
                               ELSE api.revision[1])),
        "")

\* app.ts:1140-1148: from gapi.load to the comment that names the clients.
clientLoaded(w, source, namespaces) ==
    endLine(
        commentOfString(
            writeLine(
                endLine(
                    commentOfString(
                        scopeOpen(
                            newLine(w, "gapi.load('client', async () => "),
                            "{"),
                        "now we can use gapi.client"),
                    ""),
                "await gapi.client.load('" \o source \o "');"),
            "now we can use " \o clientNames(namespaces)),
        "")

\* app.ts:1161-1164: _.forEach(oauth2.scopes, ...)
RECURSIVE writeScopes(_, _)
writeScopes(w, scopes) ==
    IF Len(scopes) = 0 THEN w
    ELSE writeScopes(writeLine(commentOfString(w, scopes[1].val.description),
                               "'" \o scopes[1].key \o "',"),
                     Tail(scopes))

\* app.ts:1150-1156: the two comments and the client id.
authorizationClient(w) ==
    writeLine(
        commentOfString(
            commentOfString(w, "don't forget to authenticate your client before sending any request to resources:"),
            "declare client_id registered in Google Developers Console"),
        "const client_id = '<<PUT YOUR CLIENT ID HERE>>';")

\* app.ts:1157-1171: the scope array; checkExists(api?.auth?.oauth2) throws
\* in its callback.
authorizationScopes(w, auth) ==
    writeLine(
        endLine(
            scopeClose(
                IF auth.oauth2 = <<>>
                THEN Throw(scopeOpen(newLine(w, "const scope = "), "["), checkExistsError)
                ELSE writeScopes(scopeOpen(newLine(w, "const scope = "), "["),
                                 ownProperties(auth.oauth2[1].scopes)),
                "]"),
            ";"),
        "const immediate = false;")

\* app.ts:1172-1181: gapi.auth.authorize and the branch of its callback for
\* an authorization granted.
authorizeGranted(w) ==
    scopeClose(
        writeLine(
            commentOfString(
                scopeOpen(
                    newLine(
                        scopeOpen(
                            newLine(w, "gapi.auth.authorize({ client_id, scope, immediate }, authResult => "),
                            "{"),
                        "if (authResult && !authResult.error) "),
                    "{"),
                "handle successful authorization"),
            "run();"),
        "}")

\* app.ts:1182-1189: the else branch and the end of the call.
authorizeDenied(w) ==
    endLine(
        scopeClose(
            endLine(
                scopeClose(
                    commentOfString(scopeOpen(write(w, " else "), "{"),
                            "handle authorization error"),
                    "}"),
                ""),
            "}"),
        ");")

\* app.ts:1149-1190: the branch of a document with an auth block.
authorization(w, auth) ==
    after(after(after(authorizationClient(w),
                      LAMBDA v : authorizationScopes(v, auth)),
                LAMBDA v : authorizeGranted(v)),
          LAMBDA v : authorizeDenied(v))

\* app.ts:1191-1195: the bare call of run() of a document without an auth
\* block, and the opening of run().
runOpening(w, api) ==
    scopeOpen(
        newLine(
            endLine(IF api.auth # <<>> THEN w ELSE writeLine(w, "run();"), ""),
            "async function run() "),
        "{")

\* app.ts:1133-1195: from the first line of the file to the opening of run().
testsOpening(w, api, source, namespaces) ==
    after(after(after(testsHeader(w, api),
                      LAMBDA v : clientLoaded(v, source, namespaces)),
                LAMBDA v : IF api.auth # <<>> THEN authorization(v, api.auth[1]) ELSE v),
          LAMBDA v : runOpening(v, api))

\* App.writeTests up to the first call of writeResourceTests; what follows
\* the calls waits on the stack (app.ts:1116-1213).
StartTests ==
    /\ pc = "start"
    /\ input.op = "writeTests"
    /\ \E w \in {testsOpening(writer, input.api, input.source, input.namespaces)} :
          /\ writer' = w
          /\ IF w.thrown
             THEN /\ pc' = "threw"
                  /\ stack' = <<>>
                  /\ ret' = Thrown(w.error)
             ELSE /\ pc' = "running"
                  /\ stack' = namespaceTestCalls(input.namespaces, input.resources)
                              \o <<ScopeEnd("}"), ScopeEndLine(""), ScopeEnd("}"),
                                   ScopeEndLine(");")>>
                  /\ ret' = ret
    /\ UNCHANGED <<input, disk, requests, seenSchemaRefs>>

\* What writeResourceTests does after scope.newLine for a method in the
\* namespace (app.ts:1084-1112), and its next round.
stubFrames(frame, m) ==
    (IF m.parameters # <<>>
     THEN <<CallProperties(ownProperties(m.parameters[1]), 1), ScopeEnd("}")>> ELSE <<>>)
    \o (IF m.request # ""
        THEN (IF m.parameters = <<>> THEN <<ScopeWrite("{} ")>> ELSE <<>>)
             \o <<ScopeWrite(", "), CallSchemaRef(m.request)>>
        ELSE <<>>)
    \o <<ScopeEndLine(");")>>
    \o resourceTestCalls(childResourcesOf(frame.node[1]),
                         frame.ancestors \o "." \o frame.name, frame.namespace)
    \o <<[frame EXCEPT !.index = @ + 1]>>

stubOpening(w, text, m) ==
    IF m.parameters # <<>>
    THEN scopeOpen(newLine(Logged(commentOfString(w, m.description),
                                  [op |-> "newLine", name |-> text]), text), "{")
    ELSE newLine(Logged(commentOfString(w, m.description),
                        [op |-> "newLine", name |-> text]), text)

stubText(frame, methodName) ==
    "await " \o frame.ancestors \o "." \o frame.name \o "." \o methodName \o "("

\* One round of _.forEach(resource.methods, ...) in App.writeResourceTests,
\* up to its first call (app.ts:1070-1112).
WriteResourceTests ==
    /\ Running("writeResourceTests")
    /\ \E methods \in {allMethodsOf(stack[1].node[1])} :
          IF stack[1].index > Len(methods)
          THEN Continue(writer, <<>>)
          ELSE IF methods[stack[1].index].val.id = <<>>
          THEN Raise(checkExistsError)
          ELSE IF ~stubWanted(methods[stack[1].index].val.id[1], stack[1].namespace)
          THEN Continue(writer, <<[stack[1] EXCEPT !.index = @ + 1]>>)
          ELSE Continue(stubOpening(writer,
                                    stubText(stack[1], methods[stack[1].index].key),
                                    methods[stack[1].index].val),
                        stubFrames(stack[1], methods[stack[1].index].val))
    /\ UNCHANGED <<input, disk, requests, seenSchemaRefs>>

\* scope.write(chunk) (app.ts:1093, 1096).
ScopeWriteChunk ==
    /\ Running("write")
    /\ Continue(write(writer, stack[1].name), <<>>)
    /\ UNCHANGED <<input, disk, requests, seenSchemaRefs>>

\* endLine(chunk) (app.ts:1101, 1211, 1213).
ScopeEndLineChunk ==
    /\ Running("scope.endLine")
    /\ Continue(endLine(writer, stack[1].name), <<>>)
    /\ UNCHANGED <<input, disk, requests, seenSchemaRefs>>

\* api.schemas: a registry, or absent.
TestRegistries ==
    {<<Registry(<<ObjectOf(PropA(Scalar("string")))>>, <<>>, <<>>)>>,
     <<Registry(<<ObjectOf(<<Entry("list", ArrayOf(Ref("A"))),
                             Entry("m", MapOf(Scalar("integer")))>>)>>, <<>>, <<>>)>>,
     <<Registry(<<ObjectOf(<<Entry("f", Scalar("float"))>>)>>, <<>>, <<>>)>>,
     <<>>}

TestNamespaces == {<<"ns">>, <<"ns", "ns2">>, <<"other">>}

TestChildren ==
    {<<>>,
     << <<Entry("child", OneMethod(PlainMethod("ns.res.child.get")))>> >>,
     << <<Entry("child", OneMethod(BodyMethod("ns2.res.child.get")))>> >>,
     << <<Entry("child",
             RestResource(<< <<Entry("get", PlainMethod("ns.res.child.get"))>> >>,
                          << <<Entry("grand",
                                     OneMethod(PlainMethod("ns.res.child.grand.get")))>> >>))>> >>}

TestMethods ==
    {<<>>,
     << <<Entry("get", PlainMethod("ns.res.get"))>> >>,
     << <<Entry("get", BodyMethod("ns2.res.get"))>> >>,
     << <<Entry("get", PlainMethod("ns.res.get")), Entry("list", BodyMethod("ns.res.list"))>> >>,
     << <<Entry("get", PlainMethod("gapi.client.ns.res.get")),
          Entry("put", RestMethod("ns.res.put", "A", NoResponse, <<>>))>> >>,
     << <<Entry("get", WithoutId(PlainMethod("")))>> >>}

TestTrees ==
    {<<Entry("res", RestResource(ms, c))>> : ms \in TestMethods, c \in TestChildren}
    \cup {<<Entry("res", RestResource(ms, <<>>)),
            Entry("res2", OneMethod(PlainMethod("ns.res2.get")))>> : ms \in TestMethods}

\* The fields of the document that the head of the test file shows.
TestApi(revision, auth) ==
    [name |-> "some-name", version |-> "v1", revision |-> revision, auth |-> auth]
AuthScope(description) == [description |-> description]
TestApis ==
    {TestApi(<<"20220101">>, <<>>),
     TestApi(<<>>, <<>>),
     TestApi(<<"20220101">>,
             <<[oauth2 |-> <<[scopes |->
                    <<Entry("https://www.googleapis.com/auth/drive",
                            AuthScope("See your files")),
                      Entry("openid", AuthScope(""))>>]>>]>>),
     TestApi(<<"20220101">>, <<[oauth2 |-> <<>>]>>)}

InitTests ==
    /\ input \in {[op |-> "writeTests", resources |-> t, schemas |-> r, api |-> a,
                   namespaces |-> n, source |-> "https://example.com/rest"] :
                     t \in TestTrees, r \in TestRegistries, n \in TestNamespaces,
                     a \in TestApis}
    /\ writer = NewWriter
    /\ Idle

NextTests ==
    \/ StartTests
    \/ WriteResourceTests
    \/ ScopeWriteChunk
    \/ ScopeEndLineChunk
    \/ WriteSchemaRef
    \/ DeleteSeen
    \/ WriteObject
    \/ WriteArray
    \/ WritePropertyValue
    \/ WriteProperties
    \/ EndProperty
    \/ CloseScope
    \/ Return
    \/ Finish
SpecTests == InitTests /\ [][NextTests]_vars

(***************************************************************************)
(* Claims about the test file, checked under SpecTests.                    *)
(***************************************************************************)
\* The methods of a resource tree, each with the text that opens its stub
\* under the ancestors given.
RECURSIVE MethodStubs(_, _)
MethodStubs(resources, ancestors) ==
    UNION {
        {[id |-> e.val.id[1],
          text |-> "await " \o ancestors \o "." \o resources[i].key \o "." \o e.key \o "("] :
            e \in {allMethodsOf(resources[i].val)[j] :
                      j \in 1..Len(allMethodsOf(resources[i].val))}}
        \cup MethodStubs(childResourcesOf(resources[i].val),
                         ancestors \o "." \o resources[i].key)
        : i \in 1..Len(resources)}

StubsWritten(text) ==
    Cardinality({i \in Indices(writer.log, {"newLine"}) : writer.log[i].name = text})

TestsReturned == input.op = "writeTests" /\ pc = "returned"

\* C16: in the test file, for each namespace, every method of the resource
\* tree whose id begins with that namespace has exactly one stub and every
\* other method has none, at every depth of the tree.
C16_OneStubPerMethod ==
    TestsReturned =>
        \A n \in 1..Len(input.namespaces) :
            \A m \in MethodStubs(input.resources, "gapi.client." \o input.namespaces[n]) :
                StubsWritten(m.text) =
                    IF FirstSegment(withoutClientPrefix(m.id)) = input.namespaces[n]
                    THEN 1 ELSE 0

\* C16, for the methods of top-level resources: each one whose id begins
\* with the namespace has one stub there.
C16_OneStubPerTopLevelMethod ==
    TestsReturned =>
        \A n \in 1..Len(input.namespaces) :
            \A i \in 1..Len(input.resources) :
                \A j \in 1..Len(allMethodsOf(input.resources[i].val)) :
                    LET e == allMethodsOf(input.resources[i].val)[j]
                    IN  FirstSegment(withoutClientPrefix(e.val.id[1])) = input.namespaces[n]
                        => StubsWritten("await gapi.client." \o input.namespaces[n] \o "."
                                        \o input.resources[i].key \o "." \o e.key \o "(") = 1

\* C16: the stub of a nested method written once for each of the two
\* methods of its parent.
C16_NestedStubRepeated ==
    /\ TestsReturned
    /\ input.namespaces = <<"ns">>
    /\ Keys(allMethodsOf(input.resources[1].val)) = <<"get", "list">>
    /\ childResourcesOf(input.resources[1].val)
           = <<Entry("child", OneMethod(PlainMethod("ns.res.child.get")))>>
    /\ StubsWritten("await gapi.client.ns.res.child.get(") = 2

\* C16: a nested method of the namespace without a stub, its parent having
\* no method.
C16_NestedStubMissing ==
    /\ TestsReturned
    /\ input.namespaces = <<"ns">>
    /\ allMethodsOf(input.resources[1].val) = <<>>
    /\ childResourcesOf(input.resources[1].val)
           = <<Entry("child", OneMethod(PlainMethod("ns.res.child.get")))>>
    /\ StubsWritten("await gapi.client.ns.res.child.get(") = 0

\* The text that opens the stub of a method of a top-level resource under
\* gapi.client.<namespace>.
TopLevelStub(namespace, resourceName, methodName) ==
    "await gapi.client." \o namespace \o "." \o resourceName \o "." \o methodName \o "("
\* Whether writeResources, in the pass of the namespace, keeps the method
\* number j of the top-level resource number i for an overload.
DeclaredIn(namespace, i, j) ==
    \E k \in 1..Len(methodsInNamespace(allMethodsOf(input.resources[i].val), namespace)) :
        methodsInNamespace(allMethodsOf(input.resources[i].val), namespace)[k]
            = allMethodsOf(input.resources[i].val)[j]

\* C25: for every namespace N and every method M of a top-level resource,
\* M has a stub under gapi.client.N in the test file exactly when
\* writeResources keeps M for an overload in the pass of N, that is exactly
\* when the first dot-segment of M's id is N.
C25_WalkersAgree ==
    TestsReturned =>
        \A n \in 1..Len(input.namespaces) :
            \A i \in 1..Len(input.resources) :
                \A j \in 1..Len(allMethodsOf(input.resources[i].val)) :
                    LET e == allMethodsOf(input.resources[i].val)[j]
                        stub == StubsWritten(TopLevelStub(input.namespaces[n],
                                                          input.resources[i].key,
                                                          e.key)) > 0
                    IN  /\ stub <=> DeclaredIn(input.namespaces[n], i, j)
                        /\ stub <=> FirstSegment(e.val.id[1]) = input.namespaces[n]

\* C25, one direction: a method that writeResources keeps for an overload
\* in the pass of N has a stub under gapi.client.N.
C25_DeclaredMethodsHaveStubs ==
    TestsReturned =>
        \A n \in 1..Len(input.namespaces) :
            \A i \in 1..Len(input.resources) :
                \A j \in 1..Len(allMethodsOf(input.resources[i].val)) :
                    DeclaredIn(input.namespaces[n], i, j)
                    => StubsWritten(TopLevelStub(input.namespaces[n],
                                                 input.resources[i].key,
                                                 allMethodsOf(input.resources[i].val)[j].key)) = 1

\* C25: the namespaces are ns and ns2; the method ns2.res.get has a stub
\* under gapi.client.ns, and writeResources keeps it in the pass of ns2
\* only.
C25_StubInPrefixNamespace ==
    /\ TestsReturned
    /\ input.namespaces = <<"ns", "ns2">>
    /\ input.resources =
          <<Entry("res", RestResource(<< <<Entry("get", BodyMethod("ns2.res.get"))>> >>,
                                      <<>>))>>
    /\ StubsWritten("await gapi.client.ns.res.get(") = 1
    /\ StubsWritten("await gapi.client.ns2.res.get(") = 1
    /\ ~DeclaredIn("ns", 1, 1)
    /\ DeclaredIn("ns2", 1, 1)

(***************************************************************************)
(* discover and processService (app.ts:825-931, 1218-1247): the batch.     *)
(* input.apis is what getAllRestDescriptions gives, input.service the      *)
(* service asked for.  stack holds discover's frame, whose api field       *)
(* numbers the document the loop is at, and after it the processService    *)
(* calls in progress, each with the promise it awaits.  disk holds, for    *)
(* each output file, how much of its text it has (absent, previous: what   *)
(* an earlier run left, empty, partial, complete), the revision marker in  *)
(* it, and the state of the write stream on it (none, created: nothing     *)
(* written to it, open: written to and not ended, ending: writer.end()     *)
(* called, closed); the console, which is what console.error and           *)
(* console.warn were given; and the other files written, in their order.   *)
(* A stream opens its file, which empties it, and writes to it while the   *)
(* program does other things: FlushStream and EndStream are steps of the   *)
(* runtime.  A document has a version; its id, name, title, documentation  *)
(* link, revision and auth block may be absent, and its revision is a      *)
(* string.  Paths are relative to the types directory;                     *)
(* config.discoveryJsonDirectory is not set.                               *)
(***************************************************************************)
MaxRevision == 2

File(content, revision, stream) ==
    [content |-> content, revision |-> revision, stream |-> stream]
RestDescription(name, revision, schemas, methods, resources) ==
    [id |-> <<name \o ":v1">>, name |-> <<name>>, version |-> "v1",
     title |-> <<"API " \o name>>,
     documentationLink |-> <<"https://" \o name \o ".example.com/docs">>,
     revision |-> revision, auth |-> <<>>,
     schemas |-> schemas, parameters |-> <<>>, methods |-> methods,
     resources |-> resources]
Call(fn, api, at) == [fn |-> fn, api |-> api, at |-> at]

\* app.ts:40-41
excludedRestDescriptionIds == <<"apigee">>

\* constants.fallbackDocumentationLinks, which is not in src/: a table from
\* ids to links.  The model gives it a link for b:v1 alone.
fallbackDocumentationLinks == <<Entry("b:v1", "https://b.example.com/fallback")>>

\* app.ts:1222-1224: the documents of the service asked for, all of them
\* when none is.
ofService(all, service) ==
    SelectSeq(all, LAMBDA d : service = <<>> \/ service[1] = "" \/ d.name = service)
\* app.ts:1225-1228: without the excluded ids.
notExcluded(all) ==
    SelectSeq(all, LAMBDA d :
        d.id = <<>> \/ \A i \in 1..Len(excludedRestDescriptionIds) :
                            excludedRestDescriptionIds[i] # d.id[1])
\* app.ts:1221-1228: the list that discover's loop goes through.
restDescriptions ==
    IF input.op = "discover" THEN notExcluded(ofService(input.apis, input.service))
    ELSE <<>>

\* app.ts:831-832: the document once checkExists has returned its id and name.
checked(restDescription) == [restDescription EXCEPT !.id = @[1], !.name = @[1]]

\* app.ts:837-839: restDescription.documentationLink ||
\* fallbackDocumentationLinks[restDescription.id], a one-element sequence
\* that says where the link comes from, empty when there is none.  The table
\* is a plain object: for an id that is a name of Object.prototype it
\* answers with the member of that name, which is no link and passes for one.
documentationLinkOf(restDescription) ==
    IF restDescription.documentationLink # <<>> /\ restDescription.documentationLink[1] # ""
    THEN <<"document">>
    ELSE IF Get(fallbackDocumentationLinks, restDescription.id[1]) = <<>> THEN <<>>
    ELSE IF Get(fallbackDocumentationLinks, restDescription.id[1])[1].k = "inherited"
    THEN <<"Object.prototype">>
    ELSE <<"fallback">>

\* app.ts:842
noDocumentationLinkMessage(id) ==
    "No documentationLink found for service with ID " \o id
    \o ", can't write required Project header, aborting"

\* path.join(destinationDirectory, 'index.d.ts') and 'tests.ts', where
\* destinationDirectory is the package name under the types directory
\* (app.ts:845-848, 861, 1124-1126).
indexDTSPath(restDescription) == getPackageName(restDescription) \o "/index.d.ts"
testsPath(restDescription) == getPackageName(restDescription) \o "/tests.ts"

\* fs.existsSync(indexDTSPath)
existsSync(file) == file.content # "absent"

\* !restDescription.revision (app.ts:864): absent, or the empty string.
noRevision(restDescription) ==
    restDescription.revision = <<>> \/ restDescription.revision[1] = ""

\* Number(restDescription.revision) (app.ts:879), for a string of digits.
Number(revision) == CHOOSE n \in 0..(MaxRevision + 1) : ToString(n) = revision

\* utils.getRevision, which is not in src/: the number of the revision
\* marker line of the file, nothing when the file has no such line.
getRevision(file) == file.revision

\* app.ts:872: !existingRevision, which holds of no revision and of 0.
noPreviousRevision(existingRevision) ==
    existingRevision = <<>> \/ existingRevision[1] = 0

\* A variant of localRevisionIsMoreRecent with the comparison turned round.
localRevisionIsOlder(existingRevision, newRevision) ==
    ~noPreviousRevision(existingRevision) /\ existingRevision[1] < newRevision

\* app.ts:870-880: existingRevision > newRevision, where an existingRevision
\* that is missing or 0 has become Infinity.
localRevisionIsMoreRecent(existingRevision, newRevision) ==
    noPreviousRevision(existingRevision) \/ existingRevision[1] > newRevision

noRevisionMessage(id) == "There's no revision in JSON of service with ID: " \o id
skippingMessage(id, existingRevision, newRevision) ==
    "Local revision "
    \o (IF noPreviousRevision(existingRevision) THEN "Infinity"
        ELSE ToString(existingRevision[1]))
    \o " is more recent than fetched " \o ToString(newRevision) \o ", skipping " \o id

\* app.ts:872-877: what console.error is given when getRevision finds no
\* revision in the file.
noPreviousRevisionMessages(restDescription, newRevisionsOnly, file) ==
    IF /\ newRevisionsOnly
       /\ existsSync(file)
       /\ ~noRevision(restDescription)
       /\ noPreviousRevision(getRevision(file))
    THEN <<"Can't find previous revision in index.d.ts: " \o restDescription.id>>
    ELSE <<>>

\* app.ts:863-885: the message of the return that skips the document, "" when
\* the document is to be processed.
skipMessage(restDescription, newRevisionsOnly, file) ==
    IF newRevisionsOnly /\ existsSync(file)
    THEN IF noRevision(restDescription) THEN noRevisionMessage(restDescription.id)
         ELSE IF localRevisionIsMoreRecent(getRevision(file),
                                           Number(restDescription.revision[1]))
         THEN skippingMessage(restDescription.id, getRevision(file),
                              Number(restDescription.revision[1]))
         ELSE ""
    ELSE ""

\* app.ts:703-819: the message of the exception that the namespace blocks of
\* processApi raise, if they raise one.
RECURSIVE namespacesError(_, _)
namespacesError(namespaces, restDescription) ==
    IF Len(namespaces) = 0 THEN <<>>
    ELSE IF writeNamespace(DeclareNamespaceWriter, namespaces[1],
                           restDescription.resources, restDescription.parameters,
                           restDescription.schemas).thrown
    THEN <<writeNamespace(DeclareNamespaceWriter, namespaces[1],
                          restDescription.resources, restDescription.parameters,
                          restDescription.schemas).error>>
    ELSE namespacesError(Tail(namespaces), restDescription)

\* sortObject on the methods of a level and on the resources under it.
sortMethods(methods) ==
    ownProperties(sortKeys(
        [i \in 1..Len(methods) |->
            Entry(methods[i].key,
                  [methods[i].val EXCEPT
                      !.parameters = IF @ = <<>> THEN <<>> ELSE <<sortObject(@[1])>>])]))
RECURSIVE sortResources(_)
sortResource(resource) ==
    [methods |-> IF resource.methods = <<>> THEN <<>>
                 ELSE <<sortMethods(resource.methods[1])>>,
     resources |-> IF resource.resources = <<>> THEN <<>>
                   ELSE <<sortResources(resource.resources[1])>>]
sortResources(resources) ==
    ownProperties(sortKeys(
        [i \in 1..Len(resources) |->
            Entry(resources[i].key, sortResource(resources[i].val))]))

\* app.ts:830: sortObject(restDescription), for the parts of the document
\* whose order the model keeps.
sortedDescription(restDescription) ==
    [restDescription EXCEPT
        !.schemas = IF @ = <<>> THEN <<>> ELSE <<sortObject(@[1])>>,
        !.parameters = sortObject(@),
        !.methods = IF @ = <<>> THEN <<>> ELSE <<sortMethods(@[1])>>,
        !.resources = sortResources(@)]

\* app.ts:887: getAllNamespaces(restDescription), over the methods at the
\* root of the document and its resources; the result keeps the names, or
\* the exception.
namespacesOf(restDescription) ==
    getAllNamespaces(RestResource(restDescription.methods,
                                  <<restDescription.resources>>))

\* A variant of awaited for a loop that does not await processService.
notAwaited(calls) == TRUE

\* app.ts:1234-1238: `await this.processService(...)` in the for loop: the
\* next round runs when no processService call is left in progress.
awaited(calls) == Len(calls) = 1

\* The class of an exception of the given message: a RangeError from the
\* engine's call stack, a TypeError from a property of undefined or a
\* native method without receiver, otherwise an Error.
errorName(message) ==
    IF message = stackOverflowError THEN "RangeError"
    ELSE IF startsWith(message, "Cannot ") \/ includes(message, " called on null or undefined")
    THEN "TypeError"
    ELSE "Error"

\* app.ts:1244: what console.error(e) is given for an exception object,
\* shown by its name and message.
caughtError(message) ==
    IF message = "" THEN errorName(message) ELSE errorName(message) \o ": " \o message

\* app.ts:1245, where the name of a document without one reads `undefined`.
serviceError(restDescription) ==
    "Error processing service: "
    \o (IF restDescription.name = <<>> THEN "undefined" ELSE restDescription.name[1])

\* App.discover up to its loop (app.ts:1218-1233): checkExists raises in the
\* filter on a document of the service that has no id.
Discover ==
    /\ pc = "start"
    /\ input.op = "discover"
    /\ IF \E i \in 1..Len(ofService(input.apis, input.service)) :
             ofService(input.apis, input.service)[i].id = <<>>
       THEN /\ pc' = "threw"
            /\ ret' = Thrown(checkExistsError)
            /\ stack' = stack
       ELSE IF Len(restDescriptions) = 0
       THEN /\ pc' = "threw"
            /\ ret' = Thrown("Can't find services")
            /\ stack' = stack
       ELSE /\ pc' = "loop"
            /\ ret' = ret
            /\ stack' = <<Call("discover", 1, "for")>>
    /\ UNCHANGED <<input, disk, requests, writer, seenSchemaRefs>>

\* How processService ends its first run: it returned, threw or awaits
\* processApi; what it gave the console; what console.error shows of the
\* exception; and the stream it left on index.d.ts.
Outcome(exit, logged, thrown, stream) ==
    [exit |-> exit, logged |-> logged, thrown |-> thrown, stream |-> stream]

\* processApi to its `await writer.end()` (app.ts:654-823): the stream is
\* created, the first line of the header needs the title, and the namespace
\* blocks follow the header.  checkExists(restDescription.version) returns.
processApiOutcome(restDescription, namespaces) ==
    IF restDescription.title = <<>>
    THEN Outcome("threw", <<>>, caughtError(checkExistsError), "created")
    ELSE IF namespacesError(namespaces, restDescription) # <<>>
    THEN Outcome("threw", <<>>,
                 caughtError(namespacesError(namespaces, restDescription)[1]), "open")
    ELSE Outcome("awaits", <<>>, "", "ending")

\* app.ts:887-894
translationOutcome(restDescription) ==
    IF namespacesOf(restDescription).thrown
    THEN Outcome("threw", <<>>, caughtError(namespacesOf(restDescription).error), "none")
    ELSE processApiOutcome(restDescription, namespacesOf(restDescription).names)

\* app.ts:863-894
revisionOutcome(restDescription, newRevisionsOnly, file) ==
    IF skipMessage(restDescription, newRevisionsOnly, file) # ""
    THEN Outcome("returned",
                 Append(noPreviousRevisionMessages(restDescription, newRevisionsOnly, file),
                        skipMessage(restDescription, newRevisionsOnly, file)),
                 "", "none")
    ELSE translationOutcome(restDescription)

\* app.ts:830-894: the checks of the id, name and documentation link come
\* first; the link is thrown as a string, which console.error shows as it is.
processServiceOutcome(restDescription, newRevisionsOnly, files) ==
    IF restDescription.id = <<>> \/ restDescription.name = <<>>
    THEN Outcome("threw", <<>>, caughtError(checkExistsError), "none")
    ELSE IF documentationLinkOf(restDescription) = <<>>
    THEN Outcome("threw", <<>>, noDocumentationLinkMessage(restDescription.id[1]), "none")
    ELSE revisionOutcome(checked(restDescription), newRevisionsOnly,
                         files[indexDTSPath(checked(restDescription))])

\* fs.createWriteStream(path) (app.ts:666-668, 1124-1126) and what is done
\* with the stream before the program next waits.
withStream(files, path, stream) == [files EXCEPT ![path].stream = stream]

\* One round of discover's loop: processService from its call to the
\* `await writer.end()` of processApi, or to the return or the exception that
\* comes before (app.ts:1234-1246, 825-894, 654-823).
ProcessService ==
    /\ pc = "loop"
    /\ input.op = "discover"
    /\ stack[1].api <= Len(restDescriptions)
    /\ awaited(stack)
    /\ \E restDescription \in {sortedDescription(restDescriptions[stack[1].api])} :
       \E outcome \in {processServiceOutcome(restDescription, input.newRevisionsOnly,
                                             disk.files)} :
          /\ disk' = [disk EXCEPT
                         !.files = IF outcome.stream = "none" THEN @
                                   ELSE withStream(@, indexDTSPath(checked(restDescription)),
                                                   outcome.stream),
                         !.console = @ \o outcome.logged
                                     \o (IF outcome.exit = "threw"
                                         THEN <<outcome.thrown>> ELSE <<>>)]
          /\ IF outcome.exit = "returned"
             THEN /\ stack' = <<Call("discover", stack[1].api + 1, "for")>> \o Tail(stack)
                  /\ pc' = pc
                  /\ ret' = ret
             ELSE IF outcome.exit = "threw"
             THEN /\ stack' = stack
                  /\ pc' = "threw"
                  /\ ret' = Thrown(serviceError(restDescription))
             ELSE /\ stack' = <<Call("discover", stack[1].api + 1, "for")>> \o Tail(stack)
                              \o <<Call("processService", stack[1].api, "processApi")>>
                  /\ pc' = pc
                  /\ ret' = ret
    /\ UNCHANGED <<input, requests, writer, seenSchemaRefs>>

\* The document whose file the path names.
documentAt(path) ==
    CHOOSE d \in {checked(restDescriptions[i]) :
                     i \in {j \in 1..Len(restDescriptions) :
                               restDescriptions[j].name # <<>>}} :
        path \in {indexDTSPath(d), testsPath(d)}

\* The revision that getRevision finds in a file with the marker line of the
\* document (app.ts:698, 1138).
markerOf(restDescription) ==
    IF noRevision(restDescription) THEN <<>>
    ELSE <<Number(restDescription.revision[1])>>

\* What a file holds after the next write of the runtime.  The stream opens
\* the file first, which leaves it empty (fs.createWriteStream, flags 'w');
\* then the text given to the stream goes to it, whose head, written first
\* (app.ts:675-699, 1133-1139), has the revision marker of the document; the
\* text is whole when the writer has been ended.
flushed(file, restDescription) ==
    IF file.content \in {"absent", "previous"} THEN File("empty", <<>>, file.stream)
    ELSE IF file.stream = "created" THEN file
    ELSE File(IF file.stream = "ending" THEN "complete" ELSE "partial",
              markerOf(restDescription), file.stream)

\* The runtime opens the file of a stream, or writes what the stream holds.
FlushStream ==
    /\ input.op = "discover"
    /\ \E path \in DOMAIN disk.files :
          /\ disk.files[path].stream \in {"created", "open", "ending"}
          /\ disk.files[path] # flushed(disk.files[path], documentAt(path))
          /\ disk' = [disk EXCEPT !.files[path] = flushed(@, documentAt(path))]
    /\ UNCHANGED <<input, pc, ret, requests, writer, seenSchemaRefs, stack>>

\* StreamWriter.end, which is not in src/: the promise of writer.end() is
\* taken to resolve when the stream has written its text and is closed.
\* The runtime finishes a stream that was ended: the file is whole, with the
\* revision marker of its document.
EndStream ==
    /\ input.op = "discover"
    /\ \E path \in DOMAIN disk.files :
          /\ disk.files[path].stream = "ending"
          /\ disk' = [disk EXCEPT !.files[path] =
                          File("complete", markerOf(documentAt(path)), "closed")]
    /\ UNCHANGED <<input, pc, ret, requests, writer, seenSchemaRefs, stack>>

\* app.ts:904-919: the files of the templates, in the order in which their
\* writes are awaited.
templates == <<"readme.md", "tsconfig.json", "tslint.json", "package.json">>

\* What processService awaits after processApi and after each template.
awaitedAfter(at) ==
    IF at = "processApi" THEN templates[1]
    ELSE templates[1 + CHOOSE n \in 1..Len(templates) : templates[n] = at]

\* The files that the awaited write has left when it resolves.
writtenBy(at, restDescription) ==
    IF at = "processApi" THEN <<>> ELSE <<getPackageName(restDescription) \o "/" \o at>>

\* processService after `await this.processApi(...)` and after each of the
\* first three template writes (app.ts:896-915): the promise resolves and the
\* next template write is awaited.
WriteTemplate ==
    /\ input.op = "discover"
    /\ \E i \in 2..Len(stack) :
          /\ stack[i].at \in {"processApi", templates[1], templates[2], templates[3]}
          /\ stack[i].at = "processApi"
                => disk.files[indexDTSPath(checked(restDescriptions[stack[i].api]))].stream
                       = "closed"
          /\ stack' = [stack EXCEPT ![i].at = awaitedAfter(@)]
          /\ disk' = [disk EXCEPT !.written =
                         @ \o writtenBy(stack[i].at, checked(restDescriptions[stack[i].api]))]
    /\ UNCHANGED <<input, pc, ret, requests, writer, seenSchemaRefs>>

\* The restDescriptionSource that comes with the document, as a string.
SourceUrl == "https://example.com/rest"

\* The first of two exceptions, each a sequence of one message or empty.
firstError(error, later) == IF error # <<>> THEN error ELSE later

\* The exception that the stub generator raises for a node, the names in
\* `seen` being those of this.seenSchemaRefs: the message, or nothing when
\* the call returns.  The calls are those of WritePropertyValue, WriteArray,
\* WriteObject, WriteSchemaRef and WriteProperties, taken to their end.
RECURSIVE valueError(_, _, _)
RECURSIVE arrayError(_, _, _)
RECURSIVE objectError(_, _, _)
RECURSIVE refError(_, _, _)
RECURSIVE propertiesError(_, _, _)
\* app.ts:933-961
valueError(node, seen, schemas) ==
    IF scalarStub(node.type) # "" THEN <<>>
    ELSE IF node.type = "array"
    THEN IF node.items = <<>> THEN <<checkExistsError>>
         ELSE arrayError(node.items[1], seen, schemas)
    ELSE IF node.type = "object" THEN objectError(node, seen, schemas)
    ELSE <<unknownScalarError(node.type)>>
\* app.ts:963-987
arrayError(items, seen, schemas) ==
    IF items.ref # "" /\ items.ref \in seen THEN <<>>
    ELSE IF items.ref # "" THEN refError(items.ref, seen, schemas)
    ELSE valueError(items, seen, schemas)
\* app.ts:989-1018: an object of type object without properties and without
\* additionalProperties goes to writePropertyValue and back without end, which
\* exhausts the call stack.
objectError(object, seen, schemas) ==
    IF additionalPropertiesRef(object) # "" /\ additionalPropertiesRef(object) \in seen
    THEN <<>>
    ELSE IF object.properties # <<>>
    THEN propertiesError(ownProperties(object.properties[1]), seen, schemas)
    ELSE IF object.additionalProperties # <<>>
    THEN IF object.additionalProperties[1].ref # ""
         THEN refError(object.additionalProperties[1].ref, seen, schemas)
         ELSE valueError(object.additionalProperties[1], seen, schemas)
    ELSE IF object.type = "object" THEN <<stackOverflowError>>
    ELSE valueError(object, seen, schemas)
\* app.ts:1021-1042
refError(schemaName, seen, schemas) ==
    IF schemaName \in seen THEN <<>>
    ELSE IF schemas = <<>> THEN <<checkExistsError>>
    ELSE IF Get(schemas[1], schemaName) = <<>> THEN <<unknownSchemaError(schemaName)>>
    ELSE objectError(asSchema(Get(schemas[1], schemaName)[1]),
                     seen \cup {schemaName}, schemas)
\* app.ts:1044-1060
propertiesError(record, seen, schemas) ==
    IF Len(record) = 0 THEN <<>>
    ELSE firstError(IF record[1].val.type = "object"
                    THEN objectError(record[1].val, seen, schemas)
                    ELSE IF record[1].val.ref # ""
                    THEN refError(record[1].val.ref, seen, schemas)
                    ELSE valueError(record[1].val, seen, schemas),
                    propertiesError(Tail(record), seen, schemas))

\* app.ts:1082-1099: the stub of one method, its parameters and then its
\* request body.
methodTestsError(m, schemas) ==
    firstError(IF m.parameters # <<>>
               THEN propertiesError(ownProperties(m.parameters[1]), {}, schemas)
               ELSE <<>>,
               IF m.request # "" THEN refError(m.request, {}, schemas) ELSE <<>>)

\* app.ts:1062-1114: the exception that writeResourceTests raises for the
\* resources, in the order of its calls: for each method of the namespace
\* its stub and then the child resources of the resource.
RECURSIVE resourcesTestsError(_, _, _)
RECURSIVE methodsTestsError(_, _, _, _)
methodsTestsError(methods, resource, namespace, schemas) ==
    IF Len(methods) = 0 THEN <<>>
    ELSE IF methods[1].val.id = <<>> THEN <<checkExistsError>>
    ELSE IF ~stubWanted(methods[1].val.id[1], namespace)
    THEN methodsTestsError(Tail(methods), resource, namespace, schemas)
    ELSE firstError(methodTestsError(methods[1].val, schemas),
                    firstError(resourcesTestsError(childResourcesOf(resource),
                                                   namespace, schemas),
                               methodsTestsError(Tail(methods), resource, namespace,
                                                 schemas)))
resourcesTestsError(resources, namespace, schemas) ==
    IF Len(resources) = 0 THEN <<>>
    ELSE firstError(methodsTestsError(allMethodsOf(resources[1].val), resources[1].val,
                                      namespace, schemas),
                    resourcesTestsError(Tail(resources), namespace, schemas))

\* app.ts:1197-1208
RECURSIVE namespacesTestsError(_, _, _)
namespacesTestsError(namespaces, resources, schemas) ==
    IF Len(namespaces) = 0 THEN <<>>
    ELSE firstError(resourcesTestsError(ownProperties(resources), namespaces[1], schemas),
                    namespacesTestsError(Tail(namespaces), resources, schemas))

\* app.ts:1116-1214: the exception that writeTests raises before its
\* `await writer.end()`, in the text before run() or in a stub.
writeTestsError(api, source, namespaces) ==
    IF testsOpening(NewWriter, api, source, namespaces).thrown
    THEN <<testsOpening(NewWriter, api, source, namespaces).error>>
    ELSE namespacesTestsError(namespaces, api.resources, api.schemas)

\* processService after the last template write: .npmrc is copied and
\* writeTests runs to its `await writer.end()`, or to the exception that its
\* text before run() or one of its stubs raises (app.ts:916-930, 1116-1216).
\* checkExists(restDescription.version) (app.ts:900) returns.
WriteTests ==
    /\ input.op = "discover"
    /\ pc = "loop"
    /\ \E i \in 2..Len(stack) :
          /\ stack[i].at = templates[Len(templates)]
          /\ \E api \in {checked(sortedDescription(restDescriptions[stack[i].api]))} :
             \E error \in {writeTestsError(api, SourceUrl, namespacesOf(api).names)} :
                /\ disk' = [disk EXCEPT
                               !.written = @ \o writtenBy(stack[i].at, api)
                                             \o <<getPackageName(api) \o "/.npmrc">>,
                               !.files = withStream(@, testsPath(api),
                                                    IF error # <<>> THEN "open"
                                                    ELSE "ending"),
                               !.console = IF error # <<>>
                                           THEN Append(@, caughtError(error[1]))
                                           ELSE @]
                /\ IF error # <<>>
                   THEN /\ pc' = "threw"
                        /\ ret' = Thrown(serviceError(restDescriptions[stack[i].api]))
                        /\ stack' = <<Call("discover", stack[i].api, "for")>>
                   ELSE /\ pc' = pc
                        /\ ret' = ret
                        /\ stack' = [stack EXCEPT ![i].at = "writeTests"]
    /\ UNCHANGED <<input, requests, writer, seenSchemaRefs>>

\* processService returns once writeTests has (app.ts:925-931).
ServiceDone ==
    /\ input.op = "discover"
    /\ \E i \in 2..Len(stack) :
          /\ stack[i].at = "writeTests"
          /\ disk.files[testsPath(checked(restDescriptions[stack[i].api]))].stream = "closed"
          /\ stack' = SubSeq(stack, 1, i - 1) \o SubSeq(stack, i + 1, Len(stack))
    /\ UNCHANGED <<input, pc, ret, requests, writer, seenSchemaRefs, disk>>

\* The loop of discover is over (app.ts:1234-1247).
DiscoverDone ==
    /\ pc = "loop"
    /\ input.op = "discover"
    /\ stack[1].api > Len(restDescriptions)
    /\ awaited(stack)
    /\ pc' = "returned"
    /\ UNCHANGED <<input, ret, requests, writer, seenSchemaRefs, stack, disk>>

\* restDescription.revision: absent, empty, or the digits of a number.
Revisions == {<<>>, <<"">>} \cup {<<ToString(n)>> : n \in 0..MaxRevision}
GoodSchemas ==
    <<IdentifiedByKey(Registry(<<ObjectOf(PropA(Scalar("string")))>>, <<>>, <<>>))>>
FailingSchemas ==
    <<IdentifiedByKey(Registry(<<ObjectOf(PropAB(Scalar("string"), Malformed))>>,
                               <<>>, <<>>))>>
GoodResources(name) == <<Entry("res", OneMethod(PlainMethod(name \o ".res.get")))>>
\* Two resources out of order, each with a method that makes writeResources
\* raise: a response without $ref, and a parameter without type.
FailingResources(name) ==
    <<Entry("zres", OneMethod(RestMethod(name \o ".zres.get", "", ResponseWithoutRef, <<>>))),
      Entry("ares", OneMethod(RestMethod(name \o ".ares.get", "", NoResponse,
                                         <<PropA(Malformed)>>)))>>
\* The same two under names that are array indices, which the sorted
\* document enumerates by their numbers: 9 before 10.
IndexedResources(name) ==
    <<Entry("10", OneMethod(RestMethod(name \o ".10.get", "", ResponseWithoutRef, <<>>))),
      Entry("9", OneMethod(RestMethod(name \o ".9.get", "", NoResponse,
                                      <<PropA(Malformed)>>)))>>
Good(name, revision) == RestDescription(name, revision, GoodSchemas, <<>>, GoodResources(name))
\* The documents of a name that are translated whole, with every revision.
GoodDescriptions(name) == {Good(name, r) : r \in Revisions}
\* Documents that processService or discover stops at: without a name, a
\* documentation link, a title or an id, with the excluded id, with an auth
\* block that has no oauth2, with an id that Object.prototype answers and no
\* link, with a request body or a parameter whose stub raises, failing on a
\* schema, without schemas, with a
\* method from which no namespace can be taken, with resources that raise.
OddDescriptions(name) ==
    {[Good(name, <<"1">>) EXCEPT !.name = <<>>],
     [Good(name, <<"1">>) EXCEPT !.documentationLink = <<>>],
     [Good(name, <<"1">>) EXCEPT !.documentationLink = <<"">>],
     [Good(name, <<"1">>) EXCEPT !.title = <<>>],
     [Good(name, <<"1">>) EXCEPT !.id = <<>>],
     [Good(name, <<"1">>) EXCEPT !.id = <<"apigee">>],
     [Good(name, <<"1">>) EXCEPT !.auth = <<[oauth2 |-> <<>>]>>],
     [Good(name, <<"1">>) EXCEPT !.id = <<"toString">>, !.documentationLink = <<>>],
     RestDescription(name, <<"1">>, GoodSchemas, <<>>,
                     <<Entry("res", OneMethod(RestMethod(name \o ".res.put", "Missing",
                                                         NoResponse, <<>>)))>>),
     RestDescription(name, <<"1">>, GoodSchemas, <<>>,
                     <<Entry("res", OneMethod(RestMethod(name \o ".res.get", "", NoResponse,
                                                         <<PropA(BareObject)>>)))>>),
     RestDescription(name, <<"2">>, FailingSchemas, <<>>, GoodResources(name)),
     RestDescription(name, <<"1">>, <<>>, <<>>, GoodResources(name)),
     RestDescription(name, <<"1">>, GoodSchemas, <<>>, FailingResources(name)),
     RestDescription(name, <<"1">>, GoodSchemas, <<>>, IndexedResources(name))}
    \cup {RestDescription(name, <<"1">>, GoodSchemas, <<>>, <<Entry("res", OneMethod(m))>>) :
             m \in {PlainMethod("get"), PlainMethod(".get"), WithoutId(PlainMethod(""))}}
    \cup {RestDescription(name, <<"1">>, GoodSchemas,
                          << <<Entry("list", PlainMethod(name \o ".list")),
                               Entry("get", PlainMethod(name \o "2.get"))>> >>, <<>>)}
RestDescriptions(name) == GoodDescriptions(name) \cup OddDescriptions(name)
\* What an earlier run left of a file: nothing, or a text with or without
\* a revision marker.
PreviousFiles ==
    {File("absent", <<>>, "none")}
    \cup {File("previous", r, "none") : r \in {<<>>} \cup {<<n>> : n \in 0..MaxRevision}}
NoFile == File("absent", <<>>, "none")

\* The batches: two documents, a and b, of which one is of any kind and the
\* other translated whole or failing on a schema; all the services, or b.
Batches ==
    {<<>>}
    \cup {<<a, b>> : a \in RestDescriptions("a"),
                     b \in {Good("b", <<"1">>),
                            RestDescription("b", <<"2">>, FailingSchemas, <<>>,
                                            GoodResources("b"))}}
    \cup {<<a, b>> : a \in {Good("a", <<"1">>)}, b \in RestDescriptions("b")}
Services == {<<>>, <<"b">>}

InitDiscover ==
    /\ input \in {[op |-> "discover", apis |-> apis, service |-> s, newRevisionsOnly |-> b,
                   files |-> [path \in {"gapi.client.a-v1/index.d.ts", "gapi.client.a-v1/tests.ts",
                                        "gapi.client.b-v1/index.d.ts", "gapi.client.b-v1/tests.ts"} |->
                                 IF path \in {"gapi.client.a-v1/index.d.ts",
                                              "gapi.client.a-v1/tests.ts"}
                                 THEN fa ELSE fb]] :
                     apis \in Batches, s \in Services,
                     b \in BOOLEAN, fa \in PreviousFiles, fb \in PreviousFiles}
    /\ disk = [files |-> input.files, console |-> <<>>, written |-> <<>>]
    /\ ret = NoResult
    /\ writer = NewWriter
    /\ seenSchemaRefs = {}
    /\ stack = <<>>
    /\ requests = <<>>
    /\ pc = "start"

NextDiscover ==
    \/ Discover
    \/ ProcessService
    \/ FlushStream
    \/ EndStream
    \/ WriteTemplate
    \/ WriteTests
    \/ ServiceDone
    \/ DiscoverDone
SpecDiscover == InitDiscover /\ [][NextDiscover]_vars

(***************************************************************************)
(* Claims about the batch, checked under SpecDiscover.                     *)
(***************************************************************************)
InBatch == input.op = "discover" /\ stack # <<>>
\* Document j has the name that its files are found by.
Named(j) == restDescriptions[j].name # <<>>
IndexOf(j) == indexDTSPath(checked(restDescriptions[j]))
TestsOf(j) == testsPath(checked(restDescriptions[j]))
StreamsOf(j) ==
    IF Named(j) THEN {disk.files[IndexOf(j)].stream, disk.files[TestsOf(j)].stream}
    ELSE {}
\* processService has been called for a document after document j.
LaterStarted(j) == j + 1 < stack[1].api \/ (pc = "threw" /\ j < stack[1].api)

\* C14: at most one processService call is in progress, and once the call
\* for a later document has started, the declaration and test streams of
\* every earlier document are closed (or were never opened).
C14_OneAtATime ==
    InBatch =>
        /\ Len(stack) <= 2
        /\ \A j \in 1..Len(restDescriptions) :
              LaterStarted(j) => StreamsOf(j) \subseteq {"none", "closed"}

\* C14: the second document in progress, both files of the first written
\* and closed.
C14_Witness ==
    /\ InBatch
    /\ Len(stack) = 2
    /\ stack[2] = Call("processService", 2, "processApi")
    /\ restDescriptions[1].revision = <<"2">>
    /\ disk.files["gapi.client.a-v1/index.d.ts"] = File("complete", <<2>>, "closed")
    /\ disk.files["gapi.client.a-v1/tests.ts"] = File("complete", <<2>>, "closed")
    /\ disk.files["gapi.client.b-v1/index.d.ts"].stream = "ending"
    /\ disk.written = <<"gapi.client.a-v1/readme.md", "gapi.client.a-v1/tsconfig.json",
                        "gapi.client.a-v1/tslint.json", "gapi.client.a-v1/package.json",
                        "gapi.client.a-v1/.npmrc">>

\* C15: when discover has raised on a document, the index.d.ts of that
\* document is as it was before the batch, or complete.
C15_NoTruncatedDeclarations ==
    (InBatch /\ pc = "threw" /\ Named(stack[1].api)) =>
        \E path \in {IndexOf(stack[1].api)} :
            \/ disk.files[path].content = "complete"
            \/ /\ disk.files[path].content = input.files[path].content
               /\ disk.files[path].revision = input.files[path].revision

\* C15: the translation of document b raised and its index.d.ts, which an
\* earlier run had left whole, holds a part of the new text.
C15_TruncatedDeclarations ==
    /\ InBatch
    /\ pc = "threw"
    /\ Len(restDescriptions) = 2
    /\ ret = Thrown("Error processing service: b")
    /\ disk.console = <<"Error">>
    /\ input.files["gapi.client.b-v1/index.d.ts"] = File("previous", <<1>>, "none")
    /\ restDescriptions[2].revision = <<"2">>
    /\ disk.files["gapi.client.b-v1/index.d.ts"] = File("partial", <<2>>, "open")
    /\ disk.files["gapi.client.b-v1/tests.ts"] = input.files["gapi.client.b-v1/tests.ts"]

\* Document j is one that newRevisionsOnly mode finds stale: index.d.ts
\* exists and the document has no revision or an older one than the file's.
Stale(j) ==
    /\ input.newRevisionsOnly
    /\ Named(j)
    /\ existsSync(input.files[IndexOf(j)])
    /\ \/ noRevision(restDescriptions[j])
       \/ /\ input.files[IndexOf(j)].revision # <<>>
          /\ Number(restDescriptions[j].revision[1]) < input.files[IndexOf(j)].revision[1]
\* Document j has a documentation link, its own or a fallback one.
Linked(j) == Named(j) /\ documentationLinkOf(restDescriptions[j]) # <<>>

SkipLogged(j) ==
    \E k \in 1..Len(disk.console) :
        disk.console[k] = IF noRevision(restDescriptions[j])
                          THEN noRevisionMessage(restDescriptions[j].id[1])
                          ELSE skippingMessage(
                                   restDescriptions[j].id[1],
                                   input.files[IndexOf(j)].revision,
                                   Number(restDescriptions[j].revision[1]))

\* Document j is skipped: discover does not raise on it, no processService
\* call stays in progress for it, its index.d.ts and tests.ts are as they
\* were, and once the loop is past it the message is on the console.
Skipped(j) ==
    /\ ~(pc = "threw" /\ stack[1].api = j)
    /\ \A i \in 2..Len(stack) : stack[i].api # j
    /\ disk.files[IndexOf(j)] = input.files[IndexOf(j)]
    /\ disk.files[TestsOf(j)] = input.files[TestsOf(j)]
    /\ j < stack[1].api => SkipLogged(j)

\* C17, as stated: in newRevisionsOnly mode a stale document is skipped.
C17_StaleDocumentSkipped ==
    InBatch => \A j \in 1..Len(restDescriptions) : Stale(j) => Skipped(j)

\* C17, amended: in newRevisionsOnly mode a stale document that has a
\* documentation link, its own or a fallback one, is skipped: processService
\* logs and returns without raising, index.d.ts and tests.ts stay as they
\* were, and discover goes on.  (The name and the link are checked before
\* the revision.)
C17_LinkedStaleDocumentSkipped ==
    InBatch => \A j \in 1..Len(restDescriptions) : (Stale(j) /\ Linked(j)) => Skipped(j)

\* C17: the round of the loop that meets a stale document with a link
\* leaves discover in its loop, at the next document.
C17_LoopGoesOn ==
    [][(/\ InBatch
        /\ pc = "loop"
        /\ Len(stack) = 1
        /\ stack[1].api <= Len(restDescriptions)
        /\ Stale(stack[1].api)
        /\ Linked(stack[1].api)
        /\ stack' # stack)
       => (pc' = "loop" /\ stack' = <<Call("discover", stack[1].api + 1, "for")>>)]_vars

\* C17: the first document skipped for its older revision, the second one
\* written.
C17_Witness ==
    /\ InBatch
    /\ pc = "returned"
    /\ input.newRevisionsOnly
    /\ restDescriptions[1].revision = <<"1">>
    /\ input.files["gapi.client.a-v1/index.d.ts"] = File("previous", <<2>>, "none")
    /\ disk.files["gapi.client.a-v1/index.d.ts"] = File("previous", <<2>>, "none")
    /\ disk.console = <<"Local revision 2 is more recent than fetched 1, skipping a:v1">>
    /\ disk.files["gapi.client.b-v1/index.d.ts"].content = "complete"
    /\ disk.files["gapi.client.b-v1/tests.ts"].content = "complete"

\* C17: a stale document without a documentation link is not skipped:
\* processService throws before it looks at the revision.
C17_StaleDocumentRaised ==
    /\ InBatch
    /\ pc = "threw"
    /\ stack[1].api = 1
    /\ Stale(1)
    /\ restDescriptions[1].revision = <<"1">>
    /\ input.files["gapi.client.a-v1/index.d.ts"] = File("previous", <<2>>, "none")
    /\ ret = Thrown("Error processing service: a")
    /\ disk.console = <<"No documentationLink found for service with ID a:v1, can't write required Project header, aborting">>

\* Document j meets, in newRevisionsOnly mode, an index.d.ts without a
\* revision marker.
Unmarked(j) ==
    /\ input.newRevisionsOnly
    /\ Named(j)
    /\ existsSync(input.files[IndexOf(j)])
    /\ input.files[IndexOf(j)].revision = <<>>

\* C22: once the loop is past a document that met an index.d.ts without a
\* revision marker, processApi has been reached for it: a stream was opened
\* on its index.d.ts.
C22_UnmarkedFileRegenerated ==
    InBatch =>
        \A j \in 1..Len(restDescriptions) :
            (Unmarked(j) /\ j < stack[1].api)
            => disk.files[IndexOf(j)].stream # "none"

\* C22: document a, of revision 2, skipped because its index.d.ts has no
\* revision marker; the batch is over and the file is as it was.
C22_UnmarkedFileKept ==
    /\ InBatch
    /\ pc = "returned"
    /\ Unmarked(1)
    /\ restDescriptions[1].revision = <<"2">>
    /\ SubSeq(disk.console, 1, 2)
          = <<"Can't find previous revision in index.d.ts: a:v1",
              "Local revision Infinity is more recent than fetched 2, skipping a:v1">>
    /\ disk.files["gapi.client.a-v1/index.d.ts"] = File("previous", <<>>, "none")
    /\ disk.files["gapi.client.a-v1/tests.ts"] = input.files["gapi.client.a-v1/tests.ts"]

(***************************************************************************)
(* getGoogleAdsDiscoveryItem (extra-apis.ts:6-35) and                      *)
(* getGoogleAdsRestDescription (app.ts:1255-1293), two async generators.   *)
(* input.op names the one that runs.  stack holds its frame, with the      *)
(* local `version`, and the frame of the consumer, with the items it has   *)
(* received; requests is the list of the URLs requested.  input.responses  *)
(* tells how the server answers each version: with a document, with HTTP   *)
(* 404, or with another error.  The consumer asks for the next item as     *)
(* long as the generator has one.                                          *)
(***************************************************************************)
FirstAdsVersion == 4   \* extra-apis.ts:9, app.ts:1259
MaxAdsVersion == 8     \* the last version the server is asked in the model

AdsGenerators == {"getGoogleAdsDiscoveryItem", "getGoogleAdsRestDescription"}

\* extra-apis.ts:12-16: the URL with %%VERSION%% replaced.
discoveryRestUrl(version) ==
    "https://googleads.googleapis.com/$discovery/rest?version=v" \o ToString(version)

\* app.ts:1258-1270: the URL made of baseUrl with the search parameter
\* `version` set, as the string that the request and the log show.
restDescriptionSource(version) ==
    "https://googleads.googleapis.com/$discovery/rest"
    \o "?" \o "version" \o "=" \o "v" \o ToString(version)

\* The URL that the generator asks for.
requested(generator, version) ==
    IF generator = "getGoogleAdsDiscoveryItem" THEN discoveryRestUrl(version)
    ELSE restDescriptionSource(version)

\* The document with which the server answers the request for a version.
adsDocument(version) == [name |-> "googleads", version |-> "v" \o ToString(version)]

\* {...(await request<DiscoveryItem>(discoveryRestUrl, proxy)), discoveryRestUrl}
\* (extra-apis.ts:19-22)
discoveryRest(version) ==
    [name |-> adsDocument(version).name, version |-> adsDocument(version).version,
     discoveryRestUrl |-> discoveryRestUrl(version)]

\* {restDescriptionSource, restDescription} (app.ts:1278-1281)
restDescriptionExtended(version) ==
    [restDescriptionSource |-> restDescriptionSource(version),
     restDescription |-> adsDocument(version)]

\* What the generator yields for a version.
yielded(generator, version) ==
    IF generator = "getGoogleAdsDiscoveryItem" THEN discoveryRest(version)
    ELSE restDescriptionExtended(version)

\* A variant of nextVersion that goes two versions on.
nextVersionSkipping(version) == version + 2

\* version++ (extra-apis.ts:33, app.ts:1291)
nextVersion(version) == version + 1

\* The version of the request the generator makes when it is resumed.
resumedAt(at, version) == IF at = "yielded" THEN nextVersion(version) ELSE version

\* The consumer asks for an item: the generator runs from its start, or
\* from its yield, to its await of the request (extra-apis.ts:9-20, 33-34;
\* app.ts:1259-1277, 1291-1292).
RequestDiscoveryItem ==
    /\ pc \in {"start", "yielded"}
    /\ input.op \in AdsGenerators
    /\ resumedAt(pc, stack[1].version) <= MaxAdsVersion
    /\ stack' = [stack EXCEPT ![1].version = resumedAt(pc, @)]
    /\ requests' = Append(requests,
                          requested(input.op, resumedAt(pc, stack[1].version)))
    /\ pc' = "requesting"
    /\ UNCHANGED <<input, disk, ret, writer, seenSchemaRefs>>

\* The request settles: the generator yields the item, returns on HTTP 404,
\* or throws the error (extra-apis.ts:18-31, app.ts:1272-1289).
SettleRequest ==
    /\ pc = "requesting"
    /\ input.op \in AdsGenerators
    /\ \E response \in {input.responses[stack[1].version]} :
          /\ pc' = CASE response = "ok" -> "yielded"
                     [] response = "404" -> "returned"
                     [] OTHER -> "threw"
          /\ stack' = IF response = "ok"
                      THEN [stack EXCEPT ![2].items =
                                Append(@, yielded(input.op, stack[1].version))]
                      ELSE stack
          /\ ret' = IF response \in {"ok", "404"} THEN ret ELSE Thrown(response)
    /\ UNCHANGED <<input, disk, requests, writer, seenSchemaRefs>>

InitAds ==
    /\ input \in {[op |-> generator, responses |-> r] :
                     generator \in AdsGenerators,
                     r \in [FirstAdsVersion..MaxAdsVersion ->
                               {"ok", "404", "Response code 500"}]}
    /\ stack = <<[fn |-> input.op, version |-> FirstAdsVersion],
                 [fn |-> "consumer", items |-> <<>>]>>
    /\ ret = NoResult
    /\ writer = NewWriter
    /\ seenSchemaRefs = {}
    /\ disk = NoFiles
    /\ requests = <<>>
    /\ pc = "start"

NextAds == RequestDiscoveryItem \/ SettleRequest
SpecAds == InitAds /\ [][NextAds]_vars

(***************************************************************************)
(* Claims about the generators, checked under SpecAds.                     *)
(***************************************************************************)
\* The version of the request number i.
Asked(i) == FirstAdsVersion + i - 1

\* C20: the requests are for v4, v5, ... in this order, none left out; each
\* request but the last was answered with a document and the consumer has
\* one item for each document, in the order of the versions; the generator
\* has returned only after a 404 and thrown only after another error, which
\* it passed on, and the failed request is the last one and gave no item.
C20_VersionsInOrder ==
    input.op \in AdsGenerators =>
        LET n == Len(requests)
            items == stack[2].items
            got == IF pc \in {"start", "yielded"} THEN n ELSE n - 1
        IN  /\ \A i \in 1..n : requests[i] = discoveryRestUrl(Asked(i))
            /\ stack[1].version = IF n = 0 THEN FirstAdsVersion ELSE Asked(n)
            /\ \A i \in 1..got : input.responses[Asked(i)] = "ok"
            /\ Len(items) = got
            /\ \A i \in 1..got : items[i] = yielded(input.op, Asked(i))
            /\ pc = "returned" => input.responses[Asked(n)] = "404"
            /\ pc = "threw" => /\ input.responses[Asked(n)] \notin {"ok", "404"}
                               /\ ret = Thrown(input.responses[Asked(n)])
            /\ pc \notin {"threw"} => ret = NoResult

\* C20: v4 and v5 gave an item each, v6 gave 404, and the generator is done.
C20_Witness ==
    /\ input.op = "getGoogleAdsDiscoveryItem"
    /\ pc = "returned"
    /\ requests = <<discoveryRestUrl(4), discoveryRestUrl(5), discoveryRestUrl(6)>>
    /\ stack[2].items = <<discoveryRest(4), discoveryRest(5)>>
    /\ input.responses[6] = "404"
    /\ input.responses[7] = "ok"

\* C20: the generator of app.ts; v4 gave an item, v5 an error which the
\* generator threw.
C20_ErrorPassedOn ==
    /\ input.op = "getGoogleAdsRestDescription"
    /\ pc = "threw"
    /\ requests = <<"https://googleads.googleapis.com/$discovery/rest?version=v4",
                    "https://googleads.googleapis.com/$discovery/rest?version=v5">>
    /\ stack[2].items = <<[restDescriptionSource |->
                               "https://googleads.googleapis.com/$discovery/rest?version=v4",
                           restDescription |-> [name |-> "googleads", version |-> "v4"]]>>
    /\ ret = Thrown("Response code 500")
    /\ input.responses[6] = "ok"

(***************************************************************************)
(* The generator as a whole: any of the operations above.                  *)
(***************************************************************************)
Init == InitAds \/ InitDiscover \/ InitTests \/ InitApi \/ InitType \/ InitRes \/ InitStub \/ InitNs \/ InitComment \/ InitBlock
Next == NextAds \/ NextDiscover \/ NextTests \/ NextApi \/ NextType \/ NextRes \/ NextStub \/ NextNs \/ NextComment \/ NextBlock
Spec == Init /\ [][Next]_vars
====
